---- MODULE Spec2Model ----
(***************************************************************************)
(* Model of the content-aware chunking library (chunking.ts).              *)
(*                                                                         *)
(* A string is a sequence of one-character strings.  Offsets handed to     *)
(* the JavaScript string methods (substring, lastIndexOf) are 0-based as   *)
(* in the source; sequence positions are 1-based.                          *)
(***************************************************************************)
EXTENDS Integers, Sequences, FiniteSets, TLC

VARIABLES
    pc,                 \* position of the running call
    text,               \* chunkText / createFixedLengthChunks argument
    maxChunkSize,       \* argument
    overlapSize,        \* argument
    calls,              \* functions chunkText has called so far
    sections,           \* createHierarchicalChunks: result of splitByHeadings
    sectionIndex,       \* createHierarchicalChunks: loop index (0-based)
    hierarchicalChunks, \* createHierarchicalChunks: chunks built so far
    ftext,              \* createFixedLengthChunks: its text parameter
    start,              \* createFixedLengthChunks: window start
    fixedChunks,        \* createFixedLengthChunks: chunks built so far
    result,             \* the returned ChunkResult
    content,            \* splitSectionIntoChunks argument
    targetMin,          \* splitSectionIntoChunks argument
    targetMax,          \* splitSectionIntoChunks argument
    sectionChunks,      \* splitSectionIntoChunks result
    argChunks,          \* chunks argument of a function called on its own
    method,             \* argument of analyzeChunkingQuality
    returned,           \* what a function called on its own returned
    documents,          \* edge function: rows of the documents table
    documentChunks,     \* edge function: rows of the document_chunks table
    uniqueConstraint,   \* edge function: documents is unique on (type, source_id)
    callers,            \* getOrCreateDocument: the invocations under way
    request,            \* processDocumentWithTimeout: the request body
    locals,             \* processDocumentWithTimeout: its local variables
    runs,               \* processDocumentWithTimeout: invocations answered
    dbErrors            \* insert and queue errors the database has given

vars == <<pc, text, maxChunkSize, overlapSize, calls, sections, sectionIndex,
          hierarchicalChunks, ftext, start, fixedChunks, result,
          content, targetMin, targetMax, sectionChunks,
          argChunks, method, returned,
          documents, documentChunks, uniqueConstraint, callers, request,
          locals, runs, dbErrors>>

edgeVars == <<documents, documentChunks, uniqueConstraint, callers, request,
              locals, runs, dbErrors>>

\* the edge function is not deployed: no table, no request
NoEdge ==
    /\ documents = {}
    /\ documentChunks = {}
    /\ uniqueConstraint = TRUE
    /\ callers = <<>>
    /\ request = <<>>
    /\ locals = <<>>
    /\ runs = 0
    /\ dbErrors = 0

(***************************************************************************)
(* Bounds of the model.                                                    *)
(***************************************************************************)
MaxFixedTextLen == 6   \* longest text given to createFixedLengthChunks alone
MaxFixedSize == 5      \* largest maxChunkSize given to it alone
MaxFixedChunks == 25   \* cap on the chunks one run of the window loop may push
MaxContentTokens == 5  \* longest content given to splitSectionIntoChunks alone
MaxTarget == 4         \* largest targetMax given to it alone
MaxLines == 4          \* most lines of a text given to chunkText
SmallSize == 2         \* chunkText is given every maxChunkSize up to this one
LargeSize == 30        \* and this one, which lets short prefixed chunks stand
MaxFallbackChunks == 5 \* longest chunk list given to shouldUseFixedLengthFallback
MaxLongTextChunks == 2 \* longest chunk list given to it with a long text
SmallFallbackSize == 2 \* it is given every maxChunkSize up to this one
LargeFallbackSize == 25 \* and this one, above the labelled chunks' lengths
MaxQualityChunks == 4  \* longest chunk list given to analyzeChunkingQuality
MaxCleanLen == 5       \* longest whitespace string given to cleanMarkdown alone
MaxCleanTokens == 4    \* most markdown tokens of a content given to it alone
MaxHeadingLines == 4   \* most lines of a text given to splitByHeadings alone
MaxEquivLines == 3     \* most lines of a text given to both copies of chunkText
MaxHierLines == 3      \* most lines of a text given to createHierarchicalChunks alone
MaxHierTarget == 5     \* it is given every targetMax up to this one
AboveCap == 2000       \* and this one, above the cap on the adjusted target
MaxCallers == 2        \* concurrent invocations of getOrCreateDocument
MaxRuns == 3           \* invocations of the edge function for one source
MaxDbErrors == 1       \* insert and queue errors the database gives in all

(***************************************************************************)
(* Characters and JavaScript string primitives.                            *)
(***************************************************************************)
NL == "\n"

\* The grave accent cannot be written in a string literal of this language;
\* this value stands for that one character.
Backtick == "grave"

IsSpace(c) == c \in {" ", "\n", "\t", "\r"}

IsTerminator(c) == c \in {".", "!", "?"}

MaxOf(S) == CHOOSE x \in S : \A y \in S : y <= x

MinOf(S) == CHOOSE x \in S : \A y \in S : x <= y

Clamp(i, n) == IF i < 0 THEN 0 ELSE IF i > n THEN n ELSE i

\* String.prototype.substring(a, b): both clamped to [0, length], swapped
\* when a > b.
Substring(s, a, b) ==
    LET ca == Clamp(a, Len(s))
        cb == Clamp(b, Len(s))
        lo == IF ca <= cb THEN ca ELSE cb
        hi == IF ca <= cb THEN cb ELSE ca
    IN  SubSeq(s, lo + 1, hi)

\* pat occurs in s at 1-based position i
OccursAt(s, pat, i) ==
    /\ i >= 1
    /\ i + Len(pat) - 1 <= Len(s)
    /\ \A k \in 1..Len(pat) : s[i + k - 1] = pat[k]

\* String.prototype.lastIndexOf(pat, pos): the largest 0-based index <= pos
\* at which pat starts, or -1.
LastIndexOf(s, pat, pos) ==
    LET hits == {i \in 0..Clamp(pos, Len(s) - Len(pat)) : OccursAt(s, pat, i + 1)}
    IN  IF Len(pat) > Len(s) \/ hits = {} THEN -1 ELSE MaxOf(hits)

\* String.prototype.includes(pat)
Includes(s, pat) == \E i \in 1..(Len(s) - Len(pat) + 1) : OccursAt(s, pat, i)

\* String.prototype.trim()
Trim(s) ==
    LET keep == {i \in 1..Len(s) : ~IsSpace(s[i])}
    IN  IF keep = {} THEN <<>> ELSE SubSeq(s, MinOf(keep), MaxOf(keep))

\* the strings of a list one after the other
RECURSIVE Flatten(_)
Flatten(ss) == IF ss = <<>> THEN <<>> ELSE Head(ss) \o Flatten(Tail(ss))

(***************************************************************************)
(* Regular expressions of the source.  MatchLen(rule, s, i) is the length  *)
(* of the match the expression finds starting at position i of s (0: no    *)
(* match there); none of them matches the empty string.                    *)
(***************************************************************************)
InClass(cls, c) ==
    CASE cls = "space" -> IsSpace(c)
      [] cls = "hash" -> c = "#"
      [] cls = "terminator" -> IsTerminator(c)
      [] cls = "newline" -> c = NL
      [] cls = "notnewline" -> c # NL
      [] cls = "notbacktick" -> c # Backtick
      [] cls = "notstar" -> c # "*"
      [] cls = "notrbracket" -> c # "]"
      [] cls = "notrparen" -> c # ")"

\* first position >= i of s that is past the end or not in the class
RunEnd(cls, s, i) ==
    MinOf({j \in i..(Len(s) + 1) : j = Len(s) + 1 \/ ~InClass(cls, s[j])})

RunLen(cls, s, i) == RunEnd(cls, s, i) - i

\* ^ under the m flag
AtLineStart(s, i) == i = 1 \/ s[i - 1] = NL

\* /\n\s*\n/ : a newline, then the whitespace run up to its last newline
ParagraphBreakLen(s, i) ==
    IF s[i] # NL THEN 0
    ELSE LET e == RunEnd("space", s, i + 1)
             nls == {j \in (i + 1)..(e - 1) : s[j] = NL}
         IN  IF nls = {} THEN 0 ELSE MaxOf(nls) - i + 1

UpperCase == <<"A", "B", "C", "D", "E", "F", "G", "H", "I", "J", "K", "L", "M",
               "N", "O", "P", "Q", "R", "S", "T", "U", "V", "W", "X", "Y", "Z">>

LowerCase == <<"a", "b", "c", "d", "e", "f", "g", "h", "i", "j", "k", "l", "m",
               "n", "o", "p", "q", "r", "s", "t", "u", "v", "w", "x", "y", "z">>

\* letters compared under the i flag
Lower(c) ==
    IF \E k \in 1..26 : UpperCase[k] = c
    THEN LowerCase[CHOOSE k \in 1..26 : UpperCase[k] = c]
    ELSE c

IsDigit(c) == c \in {"0", "1", "2", "3", "4", "5", "6", "7", "8", "9"}

\* /^#{1,6}\s+/gm
HeadingMarkerLen(s, i) ==
    LET h == RunLen("hash", s, i)
        w == RunLen("space", s, i + h)
    IN  IF AtLineStart(s, i) /\ h >= 1 /\ h <= 6 /\ w >= 1 THEN h + w ELSE 0

\* /^[-*+]\s+/gm
ListMarkerLen(s, i) ==
    LET w == RunLen("space", s, i + 1)
    IN  IF AtLineStart(s, i) /\ s[i] \in {"-", "*", "+"} /\ w >= 1
        THEN 1 + w ELSE 0

Fence == <<Backtick, Backtick, Backtick>>

\* /```[\s\S]*?```/g : up to the nearest closing fence
CodeBlockLen(s, i) ==
    LET closes == {j \in (i + 3)..Len(s) : OccursAt(s, Fence, j)}
    IN  IF OccursAt(s, Fence, i) /\ closes # {}
        THEN MinOf(closes) + 3 - i ELSE 0

\* /`[^`]+`/g
InlineCodeLen(s, i) ==
    LET e == RunEnd("notbacktick", s, i + 1)
    IN  IF s[i] = Backtick /\ e > i + 1 /\ e <= Len(s) THEN e - i + 1 ELSE 0

\* /\*\*([^*]+)\*\*/g
BoldLen(s, i) ==
    LET e == RunEnd("notstar", s, i + 2)
    IN  IF OccursAt(s, <<"*", "*">>, i) /\ e > i + 2 /\ OccursAt(s, <<"*", "*">>, e)
        THEN e + 2 - i ELSE 0

\* /\*([^*]+)\*/g
ItalicLen(s, i) ==
    LET e == RunEnd("notstar", s, i + 1)
    IN  IF s[i] = "*" /\ e > i + 1 /\ e <= Len(s) THEN e - i + 1 ELSE 0

\* /\[([^\]]+)\]\([^)]+\)/g : position of the closing bracket, 0 without match
LinkTextEnd(s, i) ==
    LET e == RunEnd("notrbracket", s, i + 1)
        k == RunEnd("notrparen", s, e + 2)
    IN  IF /\ s[i] = "["
           /\ e > i + 1
           /\ OccursAt(s, <<"]", "(">>, e)
           /\ k > e + 2
           /\ k <= Len(s)
        THEN e ELSE 0

LinkLen(s, i) ==
    LET e == LinkTextEnd(s, i)
    IN  IF e = 0 THEN 0 ELSE RunEnd("notrparen", s, e + 2) - i + 1

HasYear(inner) ==
    \E j \in 1..(Len(inner) - 3) : \A d \in 0..3 : IsDigit(inner[j + d])

HasWord(inner, word) ==
    \E j \in 1..(Len(inner) - Len(word) + 1) :
        \A d \in 1..Len(word) : Lower(inner[j + d - 1]) = word[d]

CitationWord(rule) ==
    CASE rule = "citeResearch" -> <<"r", "e", "s", "e", "a", "r", "c", "h">>
      [] rule = "citeSource" -> <<"s", "o", "u", "r", "c", "e">>
      [] rule = "citeFigure" -> <<"f", "i", "g", "u", "r", "e">>
      [] rule = "citeTable" -> <<"t", "a", "b", "l", "e">>

\* /\([^)]*\d{4}[^)]*\)/g and /\([^)]*WORD[^)]*\)/gi
CitationLen(rule, s, i) ==
    LET k == RunEnd("notrparen", s, i + 1)
        inner == SubSeq(s, i + 1, k - 1)
    IN  IF /\ s[i] = "("
           /\ k <= Len(s)
           /\ IF rule = "citeYear" THEN HasYear(inner)
              ELSE HasWord(inner, CitationWord(rule))
        THEN k - i + 1 ELSE 0

MatchLen(rule, s, i) ==
    CASE rule = "line" -> IF s[i] = NL THEN 1 ELSE 0
      [] rule = "paragraph" -> ParagraphBreakLen(s, i)
      [] rule = "sentence" -> RunLen("terminator", s, i)
      [] rule = "headingMarker" -> HeadingMarkerLen(s, i)
      [] rule = "pipe" -> IF s[i] = "|" THEN 1 ELSE 0
      [] rule = "listMarker" -> ListMarkerLen(s, i)
      [] rule = "codeBlock" -> CodeBlockLen(s, i)
      [] rule = "inlineCode" -> InlineCodeLen(s, i)
      [] rule = "bold" -> BoldLen(s, i)
      [] rule = "italic" -> ItalicLen(s, i)
      [] rule = "link" -> LinkLen(s, i)
      [] rule \in {"citeYear", "citeResearch", "citeSource", "citeFigure",
                   "citeTable"} -> CitationLen(rule, s, i)
      [] rule = "newlines3" ->
            IF RunLen("newline", s, i) >= 3 THEN RunLen("newline", s, i) ELSE 0
      [] rule = "spaces" -> RunLen("space", s, i)

\* what .replace puts in the place of the match of length n found at i
Replacement(rule, s, i, n) ==
    CASE rule \in {"pipe", "codeBlock", "inlineCode", "spaces"} -> <<" ">>
      [] rule = "bold" -> SubSeq(s, i + 2, i + n - 3)
      [] rule = "italic" -> SubSeq(s, i + 1, i + n - 2)
      [] rule = "link" -> SubSeq(s, i + 1, LinkTextEnd(s, i) - 1)
      [] rule = "newlines3" -> <<NL, NL>>
      [] OTHER -> <<>>

RECURSIVE ReplaceScan(_, _, _)
ReplaceScan(rule, s, i) ==
    IF i > Len(s) THEN <<>>
    ELSE LET n == MatchLen(rule, s, i)
         IN  IF n > 0 THEN Replacement(rule, s, i, n) \o ReplaceScan(rule, s, i + n)
             ELSE <<s[i]>> \o ReplaceScan(rule, s, i + 1)

\* String.prototype.replace(/.../g, ...)
ReplaceAll(rule, s) == ReplaceScan(rule, s, 1)

RECURSIVE SplitScan(_, _, _, _)
SplitScan(rule, s, i, cur) ==
    IF i > Len(s) THEN <<cur>>
    ELSE LET n == MatchLen(rule, s, i)
         IN  IF n > 0 THEN <<cur>> \o SplitScan(rule, s, i + n, <<>>)
             ELSE SplitScan(rule, s, i + 1, Append(cur, s[i]))

\* String.prototype.split(separator)
Split(rule, s) == SplitScan(rule, s, 1, <<>>)

\* the predicate of .filter(p => p.trim())
NonBlank(p) == Trim(p) # <<>>

(***************************************************************************)
(* splitSectionIntoChunks                                                  *)
(***************************************************************************)
\* a + (a ? sep : empty) + b.trim()
JoinTrim(a, sep, b) == a \o (IF a # <<>> THEN sep ELSE <<>>) \o Trim(b)

\* Mutant: the length tested against targetMax is the one before the join.
RECURSIVE SentenceLoopLateTest(_, _, _, _, _, _)
SentenceLoopLateTest(sentences, k, chunks, sentenceChunk, tMin, tMax) ==
    IF k > Len(sentences)
    THEN [chunks |-> chunks, sentenceChunk |-> sentenceChunk]
    ELSE LET sentence == sentences[k]
             testSentenceChunk == JoinTrim(sentenceChunk, <<".", " ">>, sentence)
         IN  IF Len(sentenceChunk) <= tMax
             THEN SentenceLoopLateTest(sentences, k + 1, chunks, testSentenceChunk,
                                       tMin, tMax)
             ELSE IF Len(sentenceChunk) >= tMin
             THEN SentenceLoopLateTest(sentences, k + 1, Append(chunks, sentenceChunk),
                                       Trim(sentence), tMin, tMax)
             ELSE SentenceLoopLateTest(sentences, k + 1, Append(chunks, Trim(sentence)),
                                       sentenceChunk, tMin, tMax)

\* The for loop over the sentences of a long paragraph (lines 247-261).
RECURSIVE SentenceLoop(_, _, _, _, _, _)
SentenceLoop(sentences, k, chunks, sentenceChunk, tMin, tMax) ==
    IF k > Len(sentences)
    THEN [chunks |-> chunks, sentenceChunk |-> sentenceChunk]
    ELSE LET sentence == sentences[k]
             testSentenceChunk == JoinTrim(sentenceChunk, <<".", " ">>, sentence)
         IN  IF Len(testSentenceChunk) <= tMax
             THEN SentenceLoop(sentences, k + 1, chunks, testSentenceChunk, tMin, tMax)
             ELSE IF Len(sentenceChunk) >= tMin
             THEN SentenceLoop(sentences, k + 1, Append(chunks, sentenceChunk),
                               Trim(sentence), tMin, tMax)
             ELSE SentenceLoop(sentences, k + 1, Append(chunks, Trim(sentence)),
                               sentenceChunk, tMin, tMax)

\* The branch that splits a long paragraph by sentences (lines 243-267).
SplitLongParagraph(paragraph, chunks, tMin, tMax) ==
    LET sentences == SelectSeq(Split("sentence", paragraph), NonBlank)
        r == SentenceLoop(sentences, 1, chunks, <<>>, tMin, tMax)
    IN  [chunks |-> r.chunks,
         currentChunk |-> IF Len(r.sentenceChunk) >= tMin
                          THEN r.sentenceChunk ELSE <<>>]

\* The for loop over the paragraphs (lines 230-274).
RECURSIVE ParagraphLoop(_, _, _, _, _, _)
ParagraphLoop(paragraphs, k, chunks, currentChunk, tMin, tMax) ==
    IF k > Len(paragraphs)
    THEN [chunks |-> chunks, currentChunk |-> currentChunk]
    ELSE LET paragraph == paragraphs[k]
             testChunk == JoinTrim(currentChunk, <<NL, NL>>, paragraph)
         IN  IF Len(testChunk) <= tMax
             THEN ParagraphLoop(paragraphs, k + 1, chunks, testChunk, tMin, tMax)
             ELSE IF Len(currentChunk) >= tMin
             THEN ParagraphLoop(paragraphs, k + 1, Append(chunks, currentChunk),
                                Trim(paragraph), tMin, tMax)
             ELSE IF Len(paragraph) > tMax
             THEN LET r == SplitLongParagraph(paragraph, chunks, tMin, tMax)
                  IN  ParagraphLoop(paragraphs, k + 1, r.chunks, r.currentChunk,
                                    tMin, tMax)
             ELSE ParagraphLoop(paragraphs, k + 1, chunks, testChunk, tMin, tMax)

\* The final chunk (lines 276-286).
FlushFinal(chunks, currentChunk, tMin) ==
    IF Len(currentChunk) >= tMin \div 2
    THEN Append(chunks, currentChunk)
    ELSE IF Len(currentChunk) > 0
    THEN IF Len(chunks) > 0
         THEN [chunks EXCEPT ![Len(chunks)] = @ \o <<NL, NL>> \o currentChunk]
         ELSE Append(chunks, currentChunk)
    ELSE chunks

splitSectionIntoChunks(c, tMin, tMax) ==
    LET paragraphs == SelectSeq(Split("paragraph", c), NonBlank)
        r == ParagraphLoop(paragraphs, 1, <<>>, <<>>, tMin, tMax)
    IN  FlushFinal(r.chunks, r.currentChunk, tMin)

\* splitSectionIntoChunks called on its own.
SplitSection ==
    /\ pc = "split"
    /\ sectionChunks' = splitSectionIntoChunks(content, targetMin, targetMax)
    /\ pc' = "done"
    /\ UNCHANGED <<edgeVars, argChunks, method, returned,
                   text, maxChunkSize, overlapSize, calls, sections,
                   sectionIndex, hierarchicalChunks, ftext, start, fixedChunks,
                   result, targetMin, targetMax, content>>

(***************************************************************************)
(* cleanMarkdown                                                           *)
(***************************************************************************)
\* Mutant: the last replacement, of whitespace runs by a blank, is left out.
CleanRulesKeepNewlines ==
    <<"headingMarker", "pipe", "listMarker", "codeBlock", "inlineCode",
      "bold", "italic", "link",
      "citeYear", "citeResearch", "citeSource", "citeFigure", "citeTable",
      "newlines3">>

\* the replacements in the order of lines 312-333
CleanRules == <<"headingMarker", "pipe", "listMarker", "codeBlock", "inlineCode",
                "bold", "italic", "link",
                "citeYear", "citeResearch", "citeSource", "citeFigure", "citeTable",
                "newlines3", "spaces">>

RECURSIVE ApplyRules(_, _, _)
ApplyRules(rules, k, s) ==
    IF k > Len(rules) THEN s ELSE ApplyRules(rules, k + 1, ReplaceAll(rules[k], s))

cleanMarkdown(c) == Trim(ApplyRules(CleanRules, 1, c))

(***************************************************************************)
(* splitByHeadings                                                         *)
(***************************************************************************)
\* trimmedLine.match(/^#{1,3}\s+/)
IsHeading(trimmedLine) ==
    LET h == RunLen("hash", trimmedLine, 1)
    IN  h >= 1 /\ h <= 3 /\ RunLen("space", trimmedLine, h + 1) >= 1

\* trimmedLine.replace(/^#{1,3}\s+/, empty).trim()
HeadingText(trimmedLine) ==
    LET h == RunLen("hash", trimmedLine, 1)
        w == RunLen("space", trimmedLine, h + 1)
    IN  Trim(SubSeq(trimmedLine, h + w + 1, Len(trimmedLine)))

\* Mutant: the section under way is pushed at the end whether or not a
\* heading was seen, and at a heading whether or not it has content.
RECURSIVE HeadingLoopPushAll(_, _, _, _, _)
HeadingLoopPushAll(lines, k, secs, currentSection, hasHeadings) ==
    IF k > Len(lines)
    THEN IF Trim(currentSection.content) # <<>>
         THEN Append(secs, currentSection) ELSE secs
    ELSE LET line == lines[k]
             trimmedLine == Trim(line)
         IN  IF IsHeading(trimmedLine)
             THEN HeadingLoopPushAll(lines, k + 1,
                              Append(secs, currentSection),
                              [title |-> HeadingText(trimmedLine), content |-> <<>>],
                              TRUE)
             ELSE HeadingLoopPushAll(lines, k + 1, secs,
                              [currentSection EXCEPT !.content =
                                  @ \o (IF @ # <<>> THEN <<NL>> ELSE <<>>) \o line],
                              hasHeadings)

\* The for loop over the lines and the final push (lines 186-214).
RECURSIVE HeadingLoop(_, _, _, _, _)
HeadingLoop(lines, k, secs, currentSection, hasHeadings) ==
    IF k > Len(lines)
    THEN IF hasHeadings /\ Trim(currentSection.content) # <<>>
         THEN Append(secs, currentSection) ELSE secs
    ELSE LET line == lines[k]
             trimmedLine == Trim(line)
         IN  IF IsHeading(trimmedLine)
             THEN HeadingLoop(lines, k + 1,
                              IF Trim(currentSection.content) # <<>>
                              THEN Append(secs, currentSection) ELSE secs,
                              [title |-> HeadingText(trimmedLine), content |-> <<>>],
                              TRUE)
             ELSE HeadingLoop(lines, k + 1, secs,
                              [currentSection EXCEPT !.content =
                                  @ \o (IF @ # <<>> THEN <<NL>> ELSE <<>>) \o line],
                              hasHeadings)

splitByHeadings(t) ==
    HeadingLoop(Split("line", t), 1, <<>>, [title |-> <<>>, content |-> <<>>], FALSE)

(***************************************************************************)
(* extractDocumentTitle                                                    *)
(***************************************************************************)
\* end of the line that holds position k (the position of its newline, or
\* one past the end)
LineEnd(s, k) == RunEnd("notnewline", s, k)

\* text.match(/^#\s+(.+)$/m) tried at position i: where group 1 starts, or 0.
\* The whitespace run is taken greedily and given back until a character
\* other than a newline follows it.
TitleGroupStart(s, i) ==
    LET e == RunEnd("space", s, i + 1)
        ks == {k \in (i + 2)..e : k <= Len(s) /\ s[k] # NL}
    IN  IF AtLineStart(s, i) /\ s[i] = "#" /\ ks # {} THEN MaxOf(ks) ELSE 0

DocumentWord == <<"D", "o", "c", "u", "m", "e", "n", "t">>

extractDocumentTitle(t) ==
    LET starts == {i \in 1..Len(t) : TitleGroupStart(t, i) > 0}
    IN  IF starts = {} THEN DocumentWord
        ELSE LET k == TitleGroupStart(t, MinOf(starts))
             IN  Trim(SubSeq(t, k, LineEnd(t, k) - 1))

(***************************************************************************)
(* createHierarchicalChunks                                                *)
(***************************************************************************)
TitleLabel == <<"T", "i", "t", "l", "e", ":", " ">>

SectionLabel == <<"S", "e", "c", "t", "i", "o", "n", ":", " ">>

ContentLabel == <<"C", "o", "n", "t", "e", "n", "t", ":", " ">>

SectionWord == <<"S", "e", "c", "t", "i", "o", "n", " ">>

Digits == <<"0", "1", "2", "3", "4", "5", "6", "7", "8", "9">>

\* a number in a template literal
RECURSIVE NumToStr(_)
NumToStr(n) ==
    IF n < 10 THEN <<Digits[n + 1]>>
    ELSE NumToStr(n \div 10) \o <<Digits[(n % 10) + 1]>>

\* Math.min(targetMax, 1800)
AdjustedTargetMax(tMax) == IF tMax < 1800 THEN tMax ELSE 1800

\* Math.floor(adjustedTargetMax * 0.6)
TargetMinOf(adjusted) == (adjusted * 6) \div 10

\* splitByHeadings(text), or the whole text as one section (lines 48-53)
SectionsOf(t) ==
    LET secs == splitByHeadings(t)
    IN  IF Len(secs) = 0 THEN <<[title |-> DocumentWord, content |-> t]>>
        ELSE secs

\* section.title || `Section ${sectionIndex + 1}`
SectionTitle(section, index) ==
    IF section.title # <<>> THEN section.title
    ELSE SectionWord \o NumToStr(index + 1)

\* `Title: ${...}\nSection: ${sectionTitle}\nContent: ${chunkContent}`
FullChunk(t, sectionTitle, chunkContent) ==
    TitleLabel \o extractDocumentTitle(t) \o <<NL>> \o SectionLabel \o sectionTitle
        \o <<NL>> \o ContentLabel \o chunkContent

\* the chunks one pass of the loop over the sections pushes (lines 56-69)
ChunksOfSection(t, section, index, tMax) ==
    LET adjustedTargetMax == AdjustedTargetMax(tMax)
        cleanedContent == cleanMarkdown(section.content)
        parts == splitSectionIntoChunks(cleanedContent,
                                        TargetMinOf(adjustedTargetMax),
                                        adjustedTargetMax)
    IN  [i \in 1..Len(parts) |-> FullChunk(t, SectionTitle(section, index), parts[i])]

(***************************************************************************)
(* shouldUseFixedLengthFallback                                            *)
(***************************************************************************)
RECURSIVE SumLen(_)
SumLen(chunks) == IF chunks = <<>> THEN 0 ELSE Len(Head(chunks)) + SumLen(Tail(chunks))

\* chunk.includes('Section: Section 1') || chunk.includes('Section: Document')
HasGenericSection(chunk) ==
    \/ Includes(chunk, SectionLabel \o SectionWord \o <<"1">>)
    \/ Includes(chunk, SectionLabel \o DocumentWord)

\* chunk.match(/Content: (.+)$/s): where group 1 starts, or 0
ContentStart(chunk) ==
    LET at == {i \in 1..Len(chunk) :
                  OccursAt(chunk, ContentLabel, i) /\ i + Len(ContentLabel) <= Len(chunk)}
    IN  IF at = {} THEN 0 ELSE MinOf(at) + Len(ContentLabel)

\* content.trim().match(/[.!?]$/)
EndsSentence(c) == LET t == Trim(c) IN t # <<>> /\ IsTerminator(t[Len(t)])

\* the filter of lines 142-147
IsBrokenSentence(chunk) ==
    LET k == ContentStart(chunk)
    IN  k > 0 /\ ~EndsSentence(SubSeq(chunk, k, Len(chunk)))

CountOf(chunks, Test(_)) == Cardinality({i \in 1..Len(chunks) : Test(chunks[i])})

\* one chunk is expected per so many characters (line 154)
CharsPerChunk == 3000

\* Math.ceil(originalText.length / 3000)
ExpectedMinChunks(originalText) ==
    (Len(originalText) + CharsPerChunk - 1) \div CharsPerChunk

\* Mutant: the generic-section criterion is left out.
FallbackWithoutGenericSection(originalText, chunks, m) ==
    LET n == Len(chunks)
    IN  \/ n = 1 /\ Len(chunks[1]) > m * 3
        \/ 2 * CountOf(chunks, IsBrokenSentence) > n
        \/ n < ExpectedMinChunks(originalText)
        \/ LET large == Cardinality({i \in 1..n : Len(chunks[i]) > m * 2})
           IN  10 * large > 6 * n
        \/ 10 * SumLen(chunks) > 18 * m * n

\* criteria 2 to 7 (lines 129-171); the products by 0.5, 0.6 and 1.8 are
\* compared after scaling both sides to integers
FallbackOnChunks(originalText, chunks, m) ==
    LET n == Len(chunks)
    IN  \/ n = 1 /\ Len(chunks[1]) > m * 3
        \/ \A i \in 1..n : HasGenericSection(chunks[i])
        \/ 2 * CountOf(chunks, IsBrokenSentence) > n
        \/ n < ExpectedMinChunks(originalText)
        \/ LET large == Cardinality({i \in 1..n : Len(chunks[i]) > m * 2})
           IN  10 * large > 6 * n
        \/ 10 * SumLen(chunks) > 18 * m * n

\* Mutant: an empty chunk list is taken as a result that stands.
NoFallbackOnEmpty(originalText, chunks, m) ==
    IF Len(chunks) = 0 THEN FALSE ELSE FallbackOnChunks(originalText, chunks, m)

shouldUseFixedLengthFallback(originalText, chunks, m) ==
    IF Len(chunks) = 0 THEN TRUE ELSE FallbackOnChunks(originalText, chunks, m)

(***************************************************************************)
(* analyzeChunkingQuality                                                  *)
(***************************************************************************)
Hierarchical == "content_aware_hierarchical"

FixedLength == "fixed_length"

\* Math.round(a / b) for naturals a and b > 0
RoundDiv(a, b) == (2 * a + b) \div (2 * b)

\* Mutant: the statistics of an empty list never report a fallback.
EmptyStatsNoFallback(m) ==
    [totalChunks |-> 0, method |-> m, averageChunkSize |-> 0,
     minChunkSize |-> 0, maxChunkSize |-> 0,
     sentenceBoundaryPreservation |-> 0,
     fallbackTriggered |-> FALSE, fallbackReasons |-> <<>>]

\* the early return of lines 347-358
EmptyStats(m) ==
    [totalChunks |-> 0, method |-> m, averageChunkSize |-> 0,
     minChunkSize |-> 0, maxChunkSize |-> 0,
     sentenceBoundaryPreservation |-> 0,
     fallbackTriggered |-> (m = FixedLength), fallbackReasons |-> <<>>]

\* the text whose ending is examined (lines 368-370)
QualityContent(chunk, m) ==
    IF m = Hierarchical /\ ContentStart(chunk) > 0
    THEN SubSeq(chunk, ContentStart(chunk), Len(chunk))
    ELSE chunk

\* Mutant: the sizes are taken over the examined content, not the chunk.
FullStatsOverContent(chunks, m) ==
    LET n == Len(chunks)
        contents == [i \in 1..n |-> QualityContent(chunks[i], m)]
        proper == Cardinality({i \in 1..n : EndsSentence(contents[i])})
    IN  [totalChunks |-> n, method |-> m,
         averageChunkSize |-> RoundDiv(SumLen(contents), n),
         minChunkSize |-> MinOf({Len(contents[i]) : i \in 1..n}),
         maxChunkSize |-> MaxOf({Len(contents[i]) : i \in 1..n}),
         sentenceBoundaryPreservation |-> RoundDiv(10000 * proper, n),
         fallbackTriggered |-> (m = FixedLength), fallbackReasons |-> <<>>]

\* lines 360-387.  sentenceBoundaryPreservation, a percentage rounded to two
\* decimals, is held in hundredths of a percent.
FullStats(chunks, m) ==
    LET n == Len(chunks)
        chunkSizes == [i \in 1..n |-> Len(chunks[i])]
        proper == Cardinality({i \in 1..n : EndsSentence(QualityContent(chunks[i], m))})
    IN  [totalChunks |-> n, method |-> m,
         averageChunkSize |-> RoundDiv(SumLen(chunks), n),
         minChunkSize |-> MinOf({chunkSizes[i] : i \in 1..n}),
         maxChunkSize |-> MaxOf({chunkSizes[i] : i \in 1..n}),
         sentenceBoundaryPreservation |-> RoundDiv(10000 * proper, n),
         fallbackTriggered |-> (m = FixedLength), fallbackReasons |-> <<>>]

analyzeChunkingQuality(chunks, m) ==
    IF Len(chunks) = 0 THEN EmptyStats(m) ELSE FullStats(chunks, m)

(***************************************************************************)
(* chunkText, step by step                                                 *)
(***************************************************************************)
\* Mutant: only the empty string is taken as blank.
IsEmptyText(t) == t = <<>>

\* !text || text.trim() === empty (line 19)
IsBlankText(t) == t = <<>> \/ Trim(t) = <<>>

\* lines 19-21
ChunkTextBlank ==
    /\ pc = "chunkText"
    /\ IsBlankText(text)
    /\ result' = [chunks |-> <<>>, method |-> "content_aware_hierarchical"]
    /\ pc' = "done"
    /\ UNCHANGED <<edgeVars, argChunks, method, returned,
                   text, maxChunkSize, overlapSize, calls, sections,
                   sectionIndex, hierarchicalChunks, ftext, start, fixedChunks,
                   content, targetMin, targetMax, sectionChunks>>

\* line 24 calls createHierarchicalChunks, which splits by headings (41-53)
HierarchicalStart ==
    /\ pc = "chunkText"
    /\ ~IsBlankText(text)
    /\ calls' = calls \cup {"createHierarchicalChunks"}
    /\ sections' = SectionsOf(text)
    /\ sectionIndex' = 0
    /\ hierarchicalChunks' = <<>>
    /\ pc' = "sections"
    /\ UNCHANGED <<edgeVars, argChunks, method, returned,
                   text, maxChunkSize, overlapSize, ftext, start, fixedChunks,
                   result, content, targetMin, targetMax, sectionChunks>>

\* Mutant: the chunks of a section are put in front of the list.
HierarchicalSectionPrepend ==
    /\ pc = "sections"
    /\ sectionIndex < Len(sections)
    /\ hierarchicalChunks' =
          ChunksOfSection(text, sections[sectionIndex + 1], sectionIndex, maxChunkSize)
             \o hierarchicalChunks
    /\ sectionIndex' = sectionIndex + 1
    /\ UNCHANGED <<edgeVars, argChunks, method, returned,
                   pc, text, maxChunkSize, overlapSize, calls, sections, ftext,
                   start, fixedChunks, result, content, targetMin, targetMax,
                   sectionChunks>>

\* one pass of the loop over the sections (lines 55-70)
HierarchicalSection ==
    /\ pc = "sections"
    /\ sectionIndex < Len(sections)
    /\ hierarchicalChunks' = hierarchicalChunks \o
          ChunksOfSection(text, sections[sectionIndex + 1], sectionIndex, maxChunkSize)
    /\ sectionIndex' = sectionIndex + 1
    /\ UNCHANGED <<edgeVars, argChunks, method, returned,
                   pc, text, maxChunkSize, overlapSize, calls, sections, ftext,
                   start, fixedChunks, result, content, targetMin, targetMax,
                   sectionChunks>>

\* createHierarchicalChunks returns (line 72)
HierarchicalReturn ==
    /\ pc = "sections"
    /\ sectionIndex >= Len(sections)
    /\ pc' = "fallback"
    /\ UNCHANGED <<edgeVars, argChunks, method, returned,
                   text, maxChunkSize, overlapSize, calls, sections,
                   sectionIndex, hierarchicalChunks, ftext, start, fixedChunks,
                   result, content, targetMin, targetMax, sectionChunks>>

\* Mutant: the fixed-length chunker is given the cleaned text.
FallbackToFixedCleaned ==
    /\ pc = "fallback"
    /\ shouldUseFixedLengthFallback(text, hierarchicalChunks, maxChunkSize)
    /\ calls' = calls \cup {"shouldUseFixedLengthFallback", "createFixedLengthChunks"}
    /\ ftext' = cleanMarkdown(text)
    /\ start' = 0
    /\ fixedChunks' = <<>>
    /\ pc' = "fixed"
    /\ UNCHANGED <<edgeVars, argChunks, method, returned,
                   text, maxChunkSize, overlapSize, sections, sectionIndex,
                   hierarchicalChunks, result, content, targetMin, targetMax,
                   sectionChunks>>

\* lines 27-28: the fallback is taken and createFixedLengthChunks is called
FallbackToFixed ==
    /\ pc = "fallback"
    /\ shouldUseFixedLengthFallback(text, hierarchicalChunks, maxChunkSize)
    /\ calls' = calls \cup {"shouldUseFixedLengthFallback", "createFixedLengthChunks"}
    /\ ftext' = text
    /\ start' = 0
    /\ fixedChunks' = <<>>
    /\ pc' = "fixed"
    /\ UNCHANGED <<edgeVars, argChunks, method, returned,
                   text, maxChunkSize, overlapSize, sections, sectionIndex,
                   hierarchicalChunks, result, content, targetMin, targetMax,
                   sectionChunks>>

\* lines 27 and 31: the hierarchical result stands
ReturnHierarchical ==
    /\ pc = "fallback"
    /\ ~shouldUseFixedLengthFallback(text, hierarchicalChunks, maxChunkSize)
    /\ calls' = calls \cup {"shouldUseFixedLengthFallback"}
    /\ result' = [chunks |-> hierarchicalChunks,
                  method |-> "content_aware_hierarchical"]
    /\ pc' = "done"
    /\ UNCHANGED <<edgeVars, argChunks, method, returned,
                   text, maxChunkSize, overlapSize, sections, sectionIndex,
                   hierarchicalChunks, ftext, start, fixedChunks, content,
                   targetMin, targetMax, sectionChunks>>

(***************************************************************************)
(* createFixedLengthChunks: one iteration of its while loop.               *)
(***************************************************************************)
\* Mutant: a boundary exactly at the half of the window is taken too.
WindowEndAtHalf(t, s, m) ==
    LET end == s + m
    IN  IF end < Len(t)
        THEN LET lastSentence == LastIndexOf(t, <<".">>, end)
                 lastParagraph == LastIndexOf(t, <<NL, NL>>, end)
                 breakPoint == IF lastSentence >= lastParagraph
                               THEN lastSentence ELSE lastParagraph
             IN  IF 2 * breakPoint >= 2 * s + m THEN breakPoint + 1 ELSE end
        ELSE end

\* The end offset of the window that starts at s (lines 88-99).
WindowEnd(t, s, m) ==
    LET end == s + m
    IN  IF end < Len(t)
        THEN LET lastSentence == LastIndexOf(t, <<".">>, end)
                 lastParagraph == LastIndexOf(t, <<NL, NL>>, end)
                 breakPoint == IF lastSentence >= lastParagraph
                               THEN lastSentence ELSE lastParagraph
             IN  \* breakPoint > start + maxChunkSize * 0.5
                 IF 2 * breakPoint > 2 * s + m THEN breakPoint + 1 ELSE end
        ELSE end

\* The chunk list after the window [s, end) has been looked at (lines 101-105).
PushWindow(chunks, t, s, end) ==
    LET chunk == Trim(Substring(t, s, end))
    IN  IF Len(chunk) > 0 THEN Append(chunks, chunk) ELSE chunks

\* The loop is left when start >= text.length (lines 87 and 108).
FixedLoopDone == start >= Len(ftext)

\* Mutant: the next window starts one character too far, leaving a gap.
FixedStepSkipping ==
    /\ pc = "fixed"
    /\ ~FixedLoopDone
    /\ Len(fixedChunks) < MaxFixedChunks
    /\ LET end == WindowEnd(ftext, start, maxChunkSize)
       IN  /\ fixedChunks' = PushWindow(fixedChunks, ftext, start, end)
           /\ start' = end - overlapSize + 1
    /\ UNCHANGED <<edgeVars, argChunks, method, returned,
                   pc, text, maxChunkSize, overlapSize, calls, sections,
                   sectionIndex, hierarchicalChunks, ftext, result,
                   content, targetMin, targetMax, sectionChunks>>

\* one pass of the while loop (lines 87-109)
FixedStep ==
    /\ pc = "fixed"
    /\ ~FixedLoopDone
    /\ Len(fixedChunks) < MaxFixedChunks
    /\ LET end == WindowEnd(ftext, start, maxChunkSize)
       IN  /\ fixedChunks' = PushWindow(fixedChunks, ftext, start, end)
           /\ start' = end - overlapSize
    /\ UNCHANGED <<edgeVars, argChunks, method, returned,
                   pc, text, maxChunkSize, overlapSize, calls, sections,
                   sectionIndex, hierarchicalChunks, ftext, result,
                   content, targetMin, targetMax, sectionChunks>>

\* createFixedLengthChunks called on its own returns its chunk list.
FixedReturn ==
    /\ pc = "fixed"
    /\ FixedLoopDone
    /\ pc' = "done"
    /\ result' = [chunks |-> fixedChunks, method |-> "fixed_length"]
    /\ UNCHANGED <<edgeVars, argChunks, method, returned,
                   text, maxChunkSize, overlapSize, calls, sections,
                   sectionIndex, hierarchicalChunks, ftext, start, fixedChunks,
                   content, targetMin, targetMax, sectionChunks>>

(***************************************************************************)
(* The functions of the library taken whole, and the copy of chunkText     *)
(* inlined in the Supabase edge function (examples/supabase-edge-function/ *)
(* index.ts lines 165-443).  The copy differs from the library in          *)
(* splitByHeadings only; its other functions are the same text and are     *)
(* modelled by the same operators.                                         *)
(***************************************************************************)
\* the loop over the sections (lines 55-70), for the sections secs
HierarchicalChunksOf(t, secs, tMax) ==
    Flatten([k \in 1..Len(secs) |-> ChunksOfSection(t, secs[k], k - 1, tMax)])

createHierarchicalChunks(t, tMax) == HierarchicalChunksOf(t, SectionsOf(t), tMax)

\* The while loop of createFixedLengthChunks from the window start s on.
\* The loop's state is its start alone, so a start met again (seen) is a
\* loop that never ends.
RECURSIVE FixedLoop(_, _, _, _, _, _)
FixedLoop(t, s, m, o, chunks, seen) ==
    IF s >= Len(t) THEN [returns |-> TRUE, chunks |-> chunks]
    ELSE IF s \in seen THEN [returns |-> FALSE, chunks |-> <<>>]
    ELSE LET end == WindowEnd(t, s, m)
         IN  FixedLoop(t, end - o, m, o, PushWindow(chunks, t, s, end),
                       seen \cup {s})

createFixedLengthChunks(t, m, o) == FixedLoop(t, 0, m, o, <<>>, {})

NeverReturns == [chunks |-> <<>>, method |-> "never returns"]

\* chunkText (lines 18-32), given the chunks createHierarchicalChunks made
ChunkTextWith(t, m, o, hierarchical) ==
    IF IsBlankText(t) THEN [chunks |-> <<>>, method |-> Hierarchical]
    ELSE IF shouldUseFixedLengthFallback(t, hierarchical, m)
    THEN LET fixed == createFixedLengthChunks(t, m, o)
         IN  IF fixed.returns
             THEN [chunks |-> fixed.chunks, method |-> FixedLength]
             ELSE NeverReturns
    ELSE [chunks |-> hierarchical, method |-> Hierarchical]

\* index.ts line 315: trimmedLine.match(/^#{2,3}\s+/)
EdgeIsHeading(trimmedLine) ==
    LET h == RunLen("hash", trimmedLine, 1)
    IN  h >= 2 /\ h <= 3 /\ RunLen("space", trimmedLine, h + 1) >= 1

\* index.ts line 323: trimmedLine.replace(/^#{2,3}\s+/, empty).trim()
EdgeHeadingText(trimmedLine) ==
    LET h == RunLen("hash", trimmedLine, 1)
        w == RunLen("space", trimmedLine, h + 1)
    IN  Trim(SubSeq(trimmedLine, h + w + 1, Len(trimmedLine)))

\* Mutant: a section without a title is not kept.
RECURSIVE EdgeHeadingLoopTitledOnly(_, _, _, _)
EdgeHeadingLoopTitledOnly(lines, k, secs, currentSection) ==
    IF k > Len(lines)
    THEN IF Trim(currentSection.content) # <<>> /\ currentSection.title # <<>>
         THEN Append(secs, currentSection) ELSE secs
    ELSE LET line == lines[k]
             trimmedLine == Trim(line)
         IN  IF EdgeIsHeading(trimmedLine)
             THEN EdgeHeadingLoopTitledOnly(lines, k + 1,
                              IF /\ Trim(currentSection.content) # <<>>
                                 /\ currentSection.title # <<>>
                              THEN Append(secs, currentSection) ELSE secs,
                              [title |-> EdgeHeadingText(trimmedLine),
                               content |-> <<>>])
             ELSE EdgeHeadingLoopTitledOnly(lines, k + 1, secs,
                              [currentSection EXCEPT !.content =
                                  @ \o (IF @ # <<>> THEN <<NL>> ELSE <<>>) \o line])

\* index.ts lines 311-335: the loop over the lines and the final push, which
\* this copy makes whether or not a heading was seen
RECURSIVE EdgeHeadingLoop(_, _, _, _)
EdgeHeadingLoop(lines, k, secs, currentSection) ==
    IF k > Len(lines)
    THEN IF Trim(currentSection.content) # <<>>
         THEN Append(secs, currentSection) ELSE secs
    ELSE LET line == lines[k]
             trimmedLine == Trim(line)
         IN  IF EdgeIsHeading(trimmedLine)
             THEN EdgeHeadingLoop(lines, k + 1,
                              IF Trim(currentSection.content) # <<>>
                              THEN Append(secs, currentSection) ELSE secs,
                              [title |-> EdgeHeadingText(trimmedLine),
                               content |-> <<>>])
             ELSE EdgeHeadingLoop(lines, k + 1, secs,
                              [currentSection EXCEPT !.content =
                                  @ \o (IF @ # <<>> THEN <<NL>> ELSE <<>>) \o line])

\* index.ts lines 306-338
EdgeSplitByHeadings(t) ==
    EdgeHeadingLoop(Split("line", t), 1, <<>>, [title |-> <<>>, content |-> <<>>])

\* index.ts lines 190-195
EdgeSectionsOf(t) ==
    LET secs == EdgeSplitByHeadings(t)
    IN  IF Len(secs) = 0 THEN <<[title |-> DocumentWord, content |-> t]>>
        ELSE secs

\* index.ts lines 183-215
EdgeCreateHierarchicalChunks(t, tMax) ==
    HierarchicalChunksOf(t, EdgeSectionsOf(t), tMax)

(***************************************************************************)
(* Inputs.                                                                 *)
(***************************************************************************)
StringsUpTo(alphabet, n) == UNION {[1..k -> alphabet] : k \in 0..n}

FixedAlphabet == {"a", ".", NL}

NoResult == [chunks |-> <<>>, method |-> "none"]

NoReturn == "none"

(***************************************************************************)
(* SpecFixed: createFixedLengthChunks(text, maxChunkSize, overlapSize) on   *)
(* every short text, with 0 <= overlapSize < maxChunkSize.                 *)
(***************************************************************************)
InitFixed ==
    /\ NoEdge
    /\ argChunks = <<>>
    /\ method = "none"
    /\ returned = NoReturn
    /\ text \in StringsUpTo(FixedAlphabet, MaxFixedTextLen)
    /\ maxChunkSize \in 1..MaxFixedSize
    /\ overlapSize \in 0..(maxChunkSize - 1)
    /\ pc = "fixed"
    /\ calls = {"createFixedLengthChunks"}
    /\ ftext = text
    /\ start = 0
    /\ fixedChunks = <<>>
    /\ result = NoResult
    /\ sections = <<>>
    /\ sectionIndex = 0
    /\ hierarchicalChunks = <<>>
    /\ content = <<>>
    /\ targetMin = 0
    /\ targetMax = 0
    /\ sectionChunks = <<>>

NextFixed == FixedStep \/ FixedReturn

SpecFixed == InitFixed /\ [][NextFixed]_vars

(***************************************************************************)
(* SpecSplit: splitSectionIntoChunks(content, targetMin, targetMax) on      *)
(* every content made of a few tokens, with 0 <= targetMin <= targetMax.   *)
(***************************************************************************)
ContentTokens == {<<"a">>, <<"b", "b">>, <<"c">>, <<".">>, <<" ">>, <<NL, NL>>}

InitSplit ==
    /\ NoEdge
    /\ argChunks = <<>>
    /\ method = "none"
    /\ returned = NoReturn
    /\ \E toks \in StringsUpTo(ContentTokens, MaxContentTokens) :
          content = Flatten(toks)
    /\ targetMax \in 1..MaxTarget
    /\ targetMin \in 0..targetMax
    /\ pc = "split"
    /\ sectionChunks = <<>>
    /\ text = <<>>
    /\ maxChunkSize = 0
    /\ overlapSize = 0
    /\ calls = {"splitSectionIntoChunks"}
    /\ ftext = <<>>
    /\ start = 0
    /\ fixedChunks = <<>>
    /\ result = NoResult
    /\ sections = <<>>
    /\ sectionIndex = 0
    /\ hierarchicalChunks = <<>>

NextSplit == SplitSection

SpecSplit == InitSplit /\ [][NextSplit]_vars

(***************************************************************************)
(* Spec: chunkText(text, maxChunkSize, overlapSize) on every text of a few *)
(* lines, with maxChunkSize > 0 and 0 <= overlapSize < maxChunkSize.       *)
(***************************************************************************)
TextLines == {<<>>, <<"a", ".", "b", ".">>, <<"#", " ", "a">>,
              <<"#", "#", " ", "b">>, <<"#", " ">>}

RECURSIVE JoinLines(_)
JoinLines(ls) ==
    IF Len(ls) = 1 THEN ls[1] ELSE ls[1] \o <<NL>> \o JoinLines(Tail(ls))

Init ==
    /\ NoEdge
    /\ argChunks = <<>>
    /\ method = "none"
    /\ returned = NoReturn
    /\ \E ls \in StringsUpTo(TextLines, MaxLines) \ {<<>>} : text = JoinLines(ls)
    /\ maxChunkSize \in (1..SmallSize) \cup {LargeSize}
    /\ overlapSize \in {0, maxChunkSize - 1}
    /\ pc = "chunkText"
    /\ calls = {}
    /\ sections = <<>>
    /\ sectionIndex = 0
    /\ hierarchicalChunks = <<>>
    /\ ftext = <<>>
    /\ start = 0
    /\ fixedChunks = <<>>
    /\ result = NoResult
    /\ content = <<>>
    /\ targetMin = 0
    /\ targetMax = 0
    /\ sectionChunks = <<>>

Next ==
    \/ ChunkTextBlank
    \/ HierarchicalStart
    \/ HierarchicalSection
    \/ HierarchicalReturn
    \/ FallbackToFixed
    \/ ReturnHierarchical
    \/ FixedStep
    \/ FixedReturn

Spec == Init /\ [][Next]_vars

(***************************************************************************)
(* SpecFallback: shouldUseFixedLengthFallback(originalText, chunks,         *)
(* maxChunkSize) on short chunk lists.  The function reads the chunks      *)
(* through every, filter and reduce only, so a list stands for all its     *)
(* orderings and the lists are drawn in one order of their kinds.          *)
(***************************************************************************)
\* no call of chunkText or of the chunkers is under way
NoPipeline ==
    /\ NoEdge
    /\ calls = {}
    /\ sections = <<>>
    /\ sectionIndex = 0
    /\ hierarchicalChunks = <<>>
    /\ ftext = <<>>
    /\ start = 0
    /\ fixedChunks = <<>>
    /\ result = NoResult
    /\ targetMin = 0
    /\ targetMax = 0
    /\ sectionChunks = <<>>

\* 'Section: <label>\nContent: <body>'
Labelled(label, body) == SectionLabel \o label \o <<NL>> \o ContentLabel \o body

ChunkKinds ==
    << <<>>,
       <<"a">>,
       <<"a", "a", "a">>,
       Labelled(DocumentWord, <<"a", ".">>),
       Labelled(SectionWord \o <<"1">>, <<"a">>),
       Labelled(<<"a">>, <<"a", ".">>),
       Labelled(<<"a">>, <<"a">>),
       Labelled(DocumentWord \o <<"s">>, <<"a", ".">>),
       Labelled(<<"a">>, SectionLabel \o DocumentWord \o <<".">>) >>

\* the lists of at most n kinds, each in the order of the kinds
KindLists(n) ==
    {f \in UNION {[1..j -> 1..Len(ChunkKinds)] : j \in 0..n} :
        \A i \in 1..(Len(f) - 1) : f[i] <= f[i + 1]}

ChunksOfKinds(f) == [i \in 1..Len(f) |-> ChunkKinds[f[i]]]

\* a text of n characters
TextOfLength(n) == [i \in 1..n |-> "a"]

InitFallback ==
    /\ \/ /\ text = TextOfLength(1)
          /\ \E f \in KindLists(MaxFallbackChunks) : argChunks = ChunksOfKinds(f)
          /\ maxChunkSize \in (1..SmallFallbackSize) \cup {LargeFallbackSize}
       \/ /\ text \in {TextOfLength(CharsPerChunk), TextOfLength(CharsPerChunk + 1)}
          /\ \E f \in KindLists(MaxLongTextChunks) : argChunks = ChunksOfKinds(f)
          /\ maxChunkSize = LargeFallbackSize
    /\ pc = "shouldUseFixedLengthFallback"
    /\ returned = NoReturn
    /\ method = "none"
    /\ overlapSize = 0
    /\ content = <<>>
    /\ NoPipeline

FallbackCall ==
    /\ pc = "shouldUseFixedLengthFallback"
    /\ returned' = shouldUseFixedLengthFallback(text, argChunks, maxChunkSize)
    /\ pc' = "done"
    /\ UNCHANGED <<edgeVars, argChunks, method, text, maxChunkSize, overlapSize, calls,
                   sections, sectionIndex, hierarchicalChunks, ftext, start,
                   fixedChunks, result, content, targetMin, targetMax,
                   sectionChunks>>

NextFallback == FallbackCall

SpecFallback == InitFallback /\ [][NextFallback]_vars

(***************************************************************************)
(* SpecHeadings: splitByHeadings(text) on every text of a few lines.        *)
(***************************************************************************)
HeadingLines ==
    {<<>>, <<" ">>, <<"a">>, <<"#", " ", "h">>, <<"#", "#", " ", "g">>,
     <<" ", "#", " ", "k", " ">>, <<"#">>, <<"#", "#", "#", "#", " ", "x">>,
     <<"#", "a">>}

InitHeadings ==
    /\ \E ls \in StringsUpTo(HeadingLines, MaxHeadingLines) \ {<<>>} :
          text = JoinLines(ls)
    /\ pc = "splitByHeadings"
    /\ returned = NoReturn
    /\ argChunks = <<>>
    /\ method = "none"
    /\ maxChunkSize = 0
    /\ overlapSize = 0
    /\ content = <<>>
    /\ NoPipeline

HeadingsCall ==
    /\ pc = "splitByHeadings"
    /\ returned' = splitByHeadings(text)
    /\ pc' = "done"
    /\ UNCHANGED <<edgeVars, argChunks, method, text, maxChunkSize, overlapSize, calls,
                   sections, sectionIndex, hierarchicalChunks, ftext, start,
                   fixedChunks, result, content, targetMin, targetMax,
                   sectionChunks>>

NextHeadings == HeadingsCall

SpecHeadings == InitHeadings /\ [][NextHeadings]_vars

(***************************************************************************)
(* SpecQuality: analyzeChunkingQuality(chunks, method) on short chunk      *)
(* lists, drawn in one order of their kinds as the function reads them     *)
(* through map, reduce, min and max only.                                  *)
(***************************************************************************)
InitQuality ==
    /\ \E f \in KindLists(MaxQualityChunks) : argChunks = ChunksOfKinds(f)
    /\ method \in {Hierarchical, FixedLength}
    /\ pc = "analyzeChunkingQuality"
    /\ returned = NoReturn
    /\ text = <<>>
    /\ maxChunkSize = 0
    /\ overlapSize = 0
    /\ content = <<>>
    /\ NoPipeline

QualityCall ==
    /\ pc = "analyzeChunkingQuality"
    /\ returned' = analyzeChunkingQuality(argChunks, method)
    /\ pc' = "done"
    /\ UNCHANGED <<edgeVars, argChunks, method, text, maxChunkSize, overlapSize, calls,
                   sections, sectionIndex, hierarchicalChunks, ftext, start,
                   fixedChunks, result, content, targetMin, targetMax,
                   sectionChunks>>

NextQuality == QualityCall

SpecQuality == InitQuality /\ [][NextQuality]_vars

(***************************************************************************)
(* SpecClean: cleanMarkdown(content) on short strings of text and          *)
(* whitespace and on short markdown made of heading lines, bold and italic *)
(* spans, links and words.                                                 *)
(***************************************************************************)
WhitespaceAlphabet == {"a", " ", NL}

\* a bold span, an italic span, a bold span with an italic span in it, a
\* link, a word, a blank, a line break, and a line break with the marker of
\* a heading line after it
MarkdownTokens ==
    {<<"*", "*", "b", "*", "*">>, <<"*", "i", "*">>,
     <<"*", "*", "b", " ", "*", "i", "*", " ", "b", "*", "*">>,
     <<"[", "t", "]", "(", "u", ")">>, <<"w">>, <<" ">>, <<NL>>,
     <<NL, "#", "#", " ", "h">>}

\* how a markdown input may begin: with a level-1 heading marker or without
MarkdownStarts == {<<>>, <<"#", " ">>}

InitClean ==
    /\ \/ content \in StringsUpTo(WhitespaceAlphabet, MaxCleanLen)
       \/ \E first \in MarkdownStarts :
             \E toks \in StringsUpTo(MarkdownTokens, MaxCleanTokens) :
                content = first \o Flatten(toks)
    /\ pc = "cleanMarkdown"
    /\ returned = NoReturn
    /\ argChunks = <<>>
    /\ method = "none"
    /\ text = <<>>
    /\ maxChunkSize = 0
    /\ overlapSize = 0
    /\ NoPipeline

CleanCall ==
    /\ pc = "cleanMarkdown"
    /\ returned' = cleanMarkdown(content)
    /\ pc' = "done"
    /\ UNCHANGED <<edgeVars, argChunks, method, text, maxChunkSize, overlapSize, calls,
                   sections, sectionIndex, hierarchicalChunks, ftext, start,
                   fixedChunks, result, content, targetMin, targetMax,
                   sectionChunks>>

NextClean == CleanCall

SpecClean == InitClean /\ [][NextClean]_vars

(***************************************************************************)
(* SpecHier: createHierarchicalChunks(text, targetMax) on every text of a   *)
(* few lines, with small targetMax and with one above the cap of 1800.     *)
(* The contents are short, so the cap is met only as the value the bound   *)
(* takes for that targetMax.                                               *)
(***************************************************************************)
\* a blank line, a heading, two sentences that end with a period, two
\* sentences with a blank between them, one sentence without a terminator,
\* and three sentences ended by other terminators
HierLines ==
    {<<>>, <<"#", "#", " ", "h">>, <<"a", ".", "b", ".">>,
     <<"a", "b", ".", " ", "c", "d">>, <<"a", "b", "c", "d", "e", "f">>,
     <<"a", "!", "b", "?", "c">>}

InitHier ==
    /\ \E ls \in StringsUpTo(HierLines, MaxHierLines) \ {<<>>} : text = JoinLines(ls)
    /\ maxChunkSize \in (1..MaxHierTarget) \cup {AboveCap}
    /\ pc = "createHierarchicalChunks"
    /\ returned = NoReturn
    /\ argChunks = <<>>
    /\ method = "none"
    /\ overlapSize = 0
    /\ content = <<>>
    /\ NoPipeline

\* lines 41-53: the sections of the text
HierarchicalCall ==
    /\ pc = "createHierarchicalChunks"
    /\ sections' = SectionsOf(text)
    /\ sectionIndex' = 0
    /\ hierarchicalChunks' = <<>>
    /\ pc' = "sections"
    /\ UNCHANGED <<edgeVars, argChunks, method, returned,
                   text, maxChunkSize, overlapSize, calls, ftext, start,
                   fixedChunks, result, content, targetMin, targetMax,
                   sectionChunks>>

\* line 72: createHierarchicalChunks called on its own returns its chunks
HierarchicalDone ==
    /\ pc = "sections"
    /\ sectionIndex >= Len(sections)
    /\ returned' = hierarchicalChunks
    /\ pc' = "done"
    /\ UNCHANGED <<edgeVars, argChunks, method,
                   text, maxChunkSize, overlapSize, calls, sections,
                   sectionIndex, hierarchicalChunks, ftext, start, fixedChunks,
                   result, content, targetMin, targetMax, sectionChunks>>

NextHier == HierarchicalCall \/ HierarchicalSection \/ HierarchicalDone

SpecHier == InitHier /\ [][NextHier]_vars

(***************************************************************************)
(* SpecEquiv: the library's chunkText and the edge function's copy called  *)
(* with the same arguments, on every text of a few lines: first the one,   *)
(* then the other, each through the loop over its sections.                *)
(***************************************************************************)
\* a blank line, headings of level 2, 3 and 1, a sentence and a line that
\* ends without a terminator
EquivLines ==
    {<<>>, <<"#", "#", " ", "h">>, <<"#", "#", "#", " ", "g">>, <<"#", " ", "t">>,
     <<"a", ".">>, <<"a", "b">>}

NotCalled == [chunks |-> <<>>, method |-> "not called"]

InitEquiv ==
    /\ \E ls \in StringsUpTo(EquivLines, MaxEquivLines) \ {<<>>} : text = JoinLines(ls)
    /\ maxChunkSize \in (1..SmallSize) \cup {LargeSize}
    /\ overlapSize \in {0, maxChunkSize - 1}
    /\ pc = "chunkText"
    /\ returned = [library |-> NotCalled, edge |-> NotCalled]
    /\ argChunks = <<>>
    /\ method = "none"
    /\ content = <<>>
    /\ NoPipeline

\* whose turn it is: the library copy is called first, the edge copy second
Turn == IF returned.library = NotCalled THEN "library" ELSE "edge"

\* part_001 lines 18-24 and 41-53: chunkText calls createHierarchicalChunks,
\* which splits the text by headings
LibraryCall ==
    /\ pc = "chunkText"
    /\ Turn = "library"
    /\ ~IsBlankText(text)
    /\ sections' = SectionsOf(text)
    /\ pc' = "sections"
    /\ UNCHANGED <<edgeVars, argChunks, method, returned,
                   text, maxChunkSize, overlapSize, calls, sectionIndex,
                   hierarchicalChunks, ftext, start, fixedChunks, result,
                   content, targetMin, targetMax, sectionChunks>>

\* index.ts lines 165-171 and 183-195: the same in the edge function's copy
EdgeCall ==
    /\ pc = "chunkText"
    /\ Turn = "edge"
    /\ returned.edge = NotCalled
    /\ ~IsBlankText(text)
    /\ sections' = EdgeSectionsOf(text)
    /\ pc' = "sections"
    /\ UNCHANGED <<edgeVars, argChunks, method, returned,
                   text, maxChunkSize, overlapSize, calls, sectionIndex,
                   hierarchicalChunks, ftext, start, fixedChunks, result,
                   content, targetMin, targetMax, sectionChunks>>

\* part_001 lines 19-21 and 27-31, index.ts lines 166-168 and 174-179: the
\* copy whose turn it is returns, at once for a blank text and after the
\* loop over the sections otherwise
CopyReturn ==
    /\ \/ pc = "chunkText" /\ IsBlankText(text)
       \/ pc = "sections" /\ sectionIndex >= Len(sections)
    /\ returned.edge = NotCalled
    /\ returned' = [returned EXCEPT ![Turn] =
                       ChunkTextWith(text, maxChunkSize, overlapSize,
                                     hierarchicalChunks)]
    /\ sections' = <<>>
    /\ sectionIndex' = 0
    /\ hierarchicalChunks' = <<>>
    /\ pc' = "chunkText"
    /\ UNCHANGED <<edgeVars, argChunks, method,
                   text, maxChunkSize, overlapSize, calls, ftext, start,
                   fixedChunks, result, content, targetMin, targetMax,
                   sectionChunks>>

NextEquiv == LibraryCall \/ EdgeCall \/ HierarchicalSection \/ CopyReturn

SpecEquiv == InitEquiv /\ [][NextEquiv]_vars

(***************************************************************************)
(* The edge function (examples/supabase-edge-function/index.ts).           *)
(*                                                                         *)
(* The database is outside the repository.  The documents table is a set   *)
(* of rows; whether it carries the unique constraint on (type, source_id)  *)
(* that the upsert names is not decided by the code, so both schemas are   *)
(* taken.  Every await on the database may answer with an error.           *)
(***************************************************************************)
\* no chunker is running and no function has been called on its own
NoChunkerCall ==
    /\ text = <<>>
    /\ maxChunkSize = 0
    /\ overlapSize = 0
    /\ calls = {}
    /\ sections = <<>>
    /\ sectionIndex = 0
    /\ hierarchicalChunks = <<>>
    /\ ftext = <<>>
    /\ start = 0
    /\ fixedChunks = <<>>
    /\ content = <<>>
    /\ targetMin = 0
    /\ targetMax = 0
    /\ sectionChunks = <<>>
    /\ argChunks = <<>>
    /\ method = "none"

\* the (type, source_id) pairs of the requests
DocKeys == {"post:1", "post:2"}

NoDocument == 0

NoRow == [id |-> NoDocument, key |-> "none", status |-> "none"]

RowsOf(docs, key) == {d \in docs : d.key = key}

\* .single(): the row when exactly one row matches, an error otherwise
Single(rows) == IF Cardinality(rows) = 1 THEN CHOOSE d \in rows : TRUE ELSE NoRow

RECURSIVE MaxId(_)
MaxId(docs) ==
    IF docs = {} THEN 0
    ELSE LET d == CHOOSE x \in docs : TRUE
             m == MaxId(docs \ {d})
         IN  IF d.id > m THEN d.id ELSE m

NewRow(docs, key) == [id |-> MaxId(docs) + 1, key |-> key, status |-> "processing"]

\* .update({status: 'processing', ...}).eq('id', id)
SetStatus(docs, id, status) ==
    {IF d.id = id THEN [d EXCEPT !.status = status] ELSE d : d \in docs}

\* a plain insert: a new row whatever the table holds
InsertRow(docs, key) == docs \cup {NewRow(docs, key)}

\* .upsert(row, {onConflict: 'type,source_id', ignoreDuplicates: false}) on a
\* table with the unique constraint: INSERT ... ON CONFLICT DO UPDATE
UpsertRow(docs, key) ==
    IF RowsOf(docs, key) # {}
    THEN {IF d.key = key THEN [d EXCEPT !.status = "processing"] ELSE d : d \in docs}
    ELSE docs \cup {NewRow(docs, key)}

(***************************************************************************)
(* SpecDocs: concurrent invocations of getOrCreateDocument.  An invocation *)
(* yields at each await, so the steps of the invocations interleave freely.*)
(***************************************************************************)
\* the rows present before the first invocation: at most one for each key
InitialDocuments ==
    { {[id |-> 1, key |-> "post:1", status |-> "indexed"]},
      {[id |-> 1, key |-> "post:2", status |-> "indexed"]},
      {[id |-> 1, key |-> "post:1", status |-> "indexed"],
       [id |-> 2, key |-> "post:2", status |-> "indexed"]},
      {} }

InitDocs ==
    /\ NoChunkerCall
    /\ result = NoResult
    /\ returned = NoReturn
    /\ pc = "getOrCreateDocument"
    /\ documents \in InitialDocuments
    /\ uniqueConstraint \in BOOLEAN
    /\ callers \in [1..MaxCallers ->
                      {[pc |-> "find", key |-> k, findError |-> FALSE,
                        existingDocument |-> NoDocument, returned |-> NoDocument]
                         : k \in DocKeys}]
    /\ documentChunks = {}
    /\ request = <<>>
    /\ locals = <<>>
    /\ runs = 0
    /\ dbErrors = 0

DocsUnchanged ==
    UNCHANGED <<pc, text, maxChunkSize, overlapSize, calls, sections,
                sectionIndex, hierarchicalChunks, ftext, start, fixedChunks,
                result, content, targetMin, targetMax, sectionChunks,
                argChunks, method, returned, documentChunks, uniqueConstraint,
                request, locals, runs, dbErrors>>

\* lines 64-71 and 110: select by (type, source_id), .single()
FindDocument(c) ==
    /\ callers[c].pc = "find"
    /\ \E findError \in BOOLEAN :
          LET row == Single(RowsOf(documents, callers[c].key))
              found == ~findError /\ row # NoRow
          IN  callers' = [callers EXCEPT
                  ![c].findError = findError,
                  ![c].existingDocument = IF found THEN row.id ELSE NoDocument,
                  ![c].pc = IF found THEN "update" ELSE "upsert"]
    /\ UNCHANGED documents
    /\ DocsUnchanged

\* lines 92-107: update the row found, return it (as found when the update fails)
UpdateDocument(c) ==
    /\ callers[c].pc = "update"
    /\ \E updateError \in BOOLEAN :
          documents' = IF updateError THEN documents
                       ELSE SetStatus(documents, callers[c].existingDocument,
                                      "processing")
    /\ callers' = [callers EXCEPT ![c].returned = callers[c].existingDocument,
                                  ![c].pc = "returned"]
    /\ DocsUnchanged

\* the answers of the upsert: without the unique constraint the database
\* rejects the ON CONFLICT target
UpsertAnswers ==
    IF uniqueConstraint THEN {"ok", "duplicate key", "other error"}
    ELSE {"other error"}

\* lines 117-139 and 155-161
UpsertDocument(c) ==
    /\ callers[c].pc = "upsert"
    /\ \E createError \in UpsertAnswers :
          CASE createError = "ok" ->
                 /\ documents' = UpsertRow(documents, callers[c].key)
                 /\ callers' = [callers EXCEPT
                        ![c].returned =
                            Single(RowsOf(documents', callers[c].key)).id,
                        ![c].pc = "returned"]
            [] createError = "duplicate key" ->
                 /\ UNCHANGED documents
                 /\ callers' = [callers EXCEPT ![c].pc = "refetch"]
            [] OTHER ->
                 /\ UNCHANGED documents
                 /\ callers' = [callers EXCEPT ![c].pc = "failed"]
    /\ DocsUnchanged

\* lines 141-155: select again after a duplicate-key error
RefetchDocument(c) ==
    /\ callers[c].pc = "refetch"
    /\ \E raceError \in BOOLEAN :
          LET row == Single(RowsOf(documents, callers[c].key))
          IN  callers' = [callers EXCEPT
                  ![c].returned = IF ~raceError /\ row # NoRow
                                  THEN row.id ELSE NoDocument,
                  ![c].pc = IF ~raceError /\ row # NoRow
                            THEN "returned" ELSE "failed"]
    /\ UNCHANGED documents
    /\ DocsUnchanged

NextDocs ==
    \E c \in 1..MaxCallers :
       \/ FindDocument(c)
       \/ UpdateDocument(c)
       \/ UpsertDocument(c)
       \/ RefetchDocument(c)

SpecDocs == InitDocs /\ [][NextDocs]_vars

(***************************************************************************)
(* SpecEdge: processDocumentWithTimeout, invoked again and again for one   *)
(* source.  chunkText(text, 1000, 80) is a function of the stored text, so *)
(* every invocation computes the same chunkResult; the model keeps that    *)
(* result (result) in place of the text, its chunks standing for the       *)
(* strings.  The content fetch, getOrCreateDocument, the delete and the    *)
(* select of the resume check are taken to succeed; an insert, a queue     *)
(* send and the status updates may fail.                                   *)
(***************************************************************************)
\* line 906: const maxChunksPerRun = 20
MaxChunksPerRun == 20

\* line 920: const batchSize = 10
BatchSize == 10

EdgeKey == "post:1"

\* chunks.length of the documents processed
DocumentSizes == {0, 1, MaxChunksPerRun, MaxChunksPerRun + 1}

ChunkStandIns(n) == [k \in 1..n |-> <<"chunk", k - 1>>]

ChunkResults ==
    {[chunks |-> ChunkStandIns(n), method |-> m] :
        n \in DocumentSizes \ {0}, m \in {Hierarchical, FixedLength}}
    \cup {[chunks |-> <<>>, method |-> Hierarchical]}

\* requestBody.metadata: resume_processing and chunking_method
Requests ==
    [resume_processing : BOOLEAN, chunking_method : {Hierarchical, "none"}]

NoLocals ==
    [document |-> NoDocument, startFromChunk |-> 0, endChunk |-> 0,
     batchStartIndex |-> 0, i |-> 0, successfulChunks |-> 0, failedChunks |-> 0,
     totalSuccessfulChunks |-> 0, totalFailedChunks |-> 0]

InitEdge ==
    /\ NoChunkerCall
    /\ result \in ChunkResults
    /\ returned = NoReturn
    /\ pc = "receive"
    /\ documents = {}
    /\ documentChunks = {}
    /\ uniqueConstraint = TRUE
    /\ callers = <<>>
    /\ request \in Requests
    /\ locals = NoLocals
    /\ runs = 0
    /\ dbErrors = 0

EdgeUnchanged ==
    UNCHANGED <<text, maxChunkSize, overlapSize, calls, sections,
                sectionIndex, hierarchicalChunks, ftext, start, fixedChunks,
                result, content, targetMin, targetMax, sectionChunks,
                argChunks, method, uniqueConstraint, callers>>

\* lines 908: chunks.slice(startFromChunk, endChunk).length
ToProcess(l) ==
    IF l.endChunk > l.startFromChunk THEN l.endChunk - l.startFromChunk ELSE 0

\* lines 742-860: the request arrives and its document row is found or made
Receive ==
    /\ pc = "receive"
    /\ runs < MaxRuns
    /\ documents' =
          IF RowsOf(documents, EdgeKey) # {}
          THEN SetStatus(documents, Single(RowsOf(documents, EdgeKey)).id,
                         "processing")
          ELSE UpsertRow(documents, EdgeKey)
    /\ locals' = [NoLocals EXCEPT
                    !.document = Single(RowsOf(documents', EdgeKey)).id]
    /\ pc' = "delete"
    /\ UNCHANGED <<request, documentChunks, returned, runs, dbErrors>>
    /\ EdgeUnchanged

\* lines 864-876: the rows the delete removes
Deleted(r) ==
    /\ r.document_id = locals.document
    /\ request.chunking_method = Hierarchical => r.chunking_method = Hierarchical

\* lines 862-876
DeleteChunks ==
    /\ pc = "delete"
    /\ documentChunks' = {r \in documentChunks : ~Deleted(r)}
    /\ pc' = "plan"
    /\ UNCHANGED <<request, documents, locals, returned, runs, dbErrors>>
    /\ EdgeUnchanged

RECURSIVE MaxOrder(_)
MaxOrder(rows) ==
    LET r == CHOOSE x \in rows : TRUE
    IN  IF rows = {r} THEN r.chunk_order
        ELSE LET m == MaxOrder(rows \ {r})
             IN  IF r.chunk_order > m THEN r.chunk_order ELSE m

\* lines 885-903
StartFromChunk(req, rows) ==
    IF req.resume_processing /\ rows # {} THEN MaxOrder(rows) + 1 ELSE 0

\* lines 879-920
PlanRun ==
    /\ pc = "plan"
    /\ LET startFromChunk ==
               StartFromChunk(request,
                   {r \in documentChunks : r.document_id = locals.document})
           proposed == startFromChunk + MaxChunksPerRun
           endChunk == IF proposed < Len(result.chunks)
                       THEN proposed ELSE Len(result.chunks)
       IN  locals' = [locals EXCEPT !.startFromChunk = startFromChunk,
                                    !.endChunk = endChunk]
    /\ pc' = "batch"
    /\ UNCHANGED <<request, documents, documentChunks, returned, runs, dbErrors>>
    /\ EdgeUnchanged

\* line 610 under the loop of line 922
EndIndex(l) ==
    IF l.batchStartIndex + BatchSize < ToProcess(l)
    THEN l.batchStartIndex + BatchSize ELSE ToProcess(l)

\* lines 613-674: one chunk of the batch: insert, then queue
ProcessChunk ==
    /\ pc = "batch"
    /\ locals.i < EndIndex(locals)
    /\ LET globalChunkIndex == locals.startFromChunk + locals.i
           row == [id |-> <<runs + 1, globalChunkIndex>>,
                   document_id |-> locals.document,
                   chunk_order |-> globalChunkIndex,
                   chunking_method |-> result.method]
       IN  \E answer \in {"ok", "chunkError", "queueError"} :
              /\ answer # "ok" => dbErrors < MaxDbErrors
              /\ dbErrors' = IF answer = "ok" THEN dbErrors ELSE dbErrors + 1
              /\ documentChunks' = IF answer = "chunkError" THEN documentChunks
                                   ELSE documentChunks \cup {row}
              /\ locals' = [locals EXCEPT
                     !.i = @ + 1,
                     !.successfulChunks = IF answer = "ok" THEN @ + 1 ELSE @,
                     !.failedChunks = IF answer = "ok" THEN @ ELSE @ + 1]
    /\ UNCHANGED <<pc, request, documents, returned, runs>>
    /\ EdgeUnchanged

\* lines 676 and 933-935, then line 922: the batch returns its counts
BatchReturn ==
    /\ pc = "batch"
    /\ locals.batchStartIndex < ToProcess(locals)
    /\ locals.i = EndIndex(locals)
    /\ locals' = [locals EXCEPT
           !.totalSuccessfulChunks = @ + locals.successfulChunks,
           !.totalFailedChunks = @ + locals.failedChunks,
           !.successfulChunks = 0,
           !.failedChunks = 0,
           !.batchStartIndex = @ + BatchSize]
    /\ UNCHANGED <<pc, request, documents, documentChunks, returned, runs,
                   dbErrors>>
    /\ EdgeUnchanged

\* a final status that is 'failed' whenever nothing succeeded
FinalStatusNothingQueued(successfulChunks, failedChunks, toProcess, endChunk, total) ==
    IF successfulChunks = 0
    THEN "failed"
    ELSE IF successfulChunks = toProcess /\ endChunk >= total
    THEN "indexed"
    ELSE IF endChunk < total \/ failedChunks > 0
    THEN "partial"
    ELSE "indexed"

\* lines 959-985
FinalStatus(successfulChunks, failedChunks, toProcess, endChunk, total) ==
    IF successfulChunks = 0 /\ toProcess > 0
    THEN "failed"
    ELSE IF successfulChunks = toProcess /\ endChunk >= total
    THEN "indexed"
    ELSE IF endChunk < total \/ failedChunks > 0
    THEN "partial"
    ELSE "indexed"

\* lines 1039-1061
ResponseOf(l, total, req) ==
    LET finalStatus == FinalStatus(l.totalSuccessfulChunks, l.totalFailedChunks,
                                   ToProcess(l), l.endChunk, total)
    IN  [http |-> IF finalStatus = "failed" THEN 500 ELSE 200,
         success |-> finalStatus # "failed",
         status |-> finalStatus,
         chunks_total |-> total,
         chunks_processed_this_run |-> ToProcess(l),
         chunks_successful_this_run |-> l.totalSuccessfulChunks,
         chunks_failed_this_run |-> l.totalFailedChunks,
         processing_limited |-> l.endChunk < total,
         can_resume |-> (l.endChunk < total
                         \/ (finalStatus = "partial" /\ l.totalFailedChunks > 0)),
         resumed_processing |-> req.resume_processing,
         start_chunk_index |-> l.startFromChunk,
         end_chunk_index |-> l.endChunk - 1]

\* lines 953-1061: the loop is over; the status is written (unless both
\* updates fail) and the response returned; the next request is then awaited
Respond ==
    /\ pc = "batch"
    /\ locals.batchStartIndex >= ToProcess(locals)
    /\ returned' = ResponseOf(locals, Len(result.chunks), request)
    /\ \E updated \in BOOLEAN :
          documents' = IF updated
                       THEN SetStatus(documents, locals.document, returned'.status)
                       ELSE documents
    /\ runs' = runs + 1
    /\ request' \in Requests
    /\ pc' = "receive"
    /\ UNCHANGED <<locals, documentChunks, dbErrors>>
    /\ EdgeUnchanged

NextEdge ==
    \/ Receive
    \/ DeleteChunks
    \/ PlanRun
    \/ ProcessChunk
    \/ BatchReturn
    \/ Respond

SpecEdge == InitEdge /\ [][NextEdge]_vars

(***************************************************************************)
(* Properties.                                                             *)
(***************************************************************************)
Range(s) == {s[i] : i \in 1..Len(s)}

HasHeadingLine(t) ==
    LET lines == Split("line", t)
    IN  \E k \in 1..Len(lines) : IsHeading(Trim(lines[k]))

\* c is a non-empty piece of t without whitespace at either end
IsTrimmedSubstring(c, t) ==
    /\ c # <<>>
    /\ Includes(t, c)
    /\ ~IsSpace(c[1])
    /\ ~IsSpace(c[Len(c)])

StartsWith(s, prefix) == OccursAt(s, prefix, 1)

\* C1 as stated: for every non-empty text chunkText returns at least one
\* chunk.
C1_NonEmptyTextHasChunk ==
    (pc = "done" /\ text # <<>>) => Len(result.chunks) >= 1

\* C1 amended: every result chunkText returns for a text that holds a
\* character other than whitespace has at least one chunk, whichever method
\* it used.
C1_NonBlankTextHasChunk ==
    (pc = "done" /\ Trim(text) # <<>>) => Len(result.chunks) >= 1

\* a text whose only section cleans to nothing still gets a chunk
C1_Witness ==
    /\ pc = "done"
    /\ Trim(text) # <<>>
    /\ hierarchicalChunks = <<>>
    /\ Len(result.chunks) >= 1

\* trimmed paragraphs and sentences of the content, as the function cuts them
ParagraphsOf(c) == SelectSeq(Split("paragraph", c), NonBlank)

SentencesOf(paragraph) == SelectSeq(Split("sentence", paragraph), NonBlank)

InSomeChunk(piece, chunks) == \E i \in 1..Len(chunks) : Includes(chunks[i], piece)

\* C2: splitSectionIntoChunks drops nothing: every paragraph of the content
\* occurs in some returned chunk, or, when it is long enough to be split by
\* sentences, each of its sentences does.
C2_NoContentDropped ==
    pc = "done" =>
        LET paragraphs == ParagraphsOf(content)
        IN  \A k \in 1..Len(paragraphs) :
                \/ InSomeChunk(Trim(paragraphs[k]), sectionChunks)
                \/ /\ Len(paragraphs[k]) > targetMax
                   /\ LET sentences == SentencesOf(paragraphs[k])
                      IN  \A j \in 1..Len(sentences) :
                              InSomeChunk(Trim(sentences[j]), sectionChunks)

\* the letters of a string in their order
IsLetter(c) == c \in {"a", "b", "c"}

LettersOf(s) == SelectSeq(s, IsLetter)

\* no letter comes before a letter that is earlier in the alphabet
SortedLetters(s) ==
    \A i, j \in 1..Len(s) :
        i < j => <<s[i], s[j]>> \notin {<<"b", "a">>, <<"c", "a">>, <<"c", "b">>}

\* C3: the chunks of one section keep the document order: when the letters
\* of the content are in alphabetical order, so that every piece written
\* with an earlier letter precedes every piece written with a later one, the
\* letters of the returned chunks read in order are in that order too.
C3_DocumentOrderKept ==
    (pc = "done" /\ SortedLetters(LettersOf(content))) =>
        SortedLetters(LettersOf(Flatten(sectionChunks)))

\* the titles of the heading lines of a text, in order
HeadingTitles(t) ==
    LET lines == Split("line", t)
        idx == {k \in 1..Len(lines) : IsHeading(Trim(lines[k]))}
        Nth[n \in 0..Cardinality(idx)] ==
            IF n = 0 THEN 0
            ELSE MinOf({k \in idx : k > Nth[n - 1]})
    IN  [n \in 1..Cardinality(idx) |-> HeadingText(Trim(lines[Nth[n]]))]

RECURSIVE IsSubsequence(_, _)
IsSubsequence(a, b) ==
    IF a = <<>> THEN TRUE
    ELSE IF b = <<>> THEN FALSE
    ELSE IF Head(a) = Head(b) THEN IsSubsequence(Tail(a), Tail(b))
    ELSE IsSubsequence(a, Tail(b))

HasTitle(section) == section.title # <<>>

TitlesOf(secs) ==
    LET titled == SelectSeq(secs, HasTitle)
    IN  [k \in 1..Len(titled) |-> titled[k].title]

\* number of chunks the sections before the k-th one give
RECURSIVE ChunksBefore(_)
ChunksBefore(k) ==
    IF k <= 1 THEN 0
    ELSE ChunksBefore(k - 1)
           + Len(ChunksOfSection(text, sections[k - 1], k - 2, maxChunkSize))

\* C4: the list createHierarchicalChunks returns holds the chunks of the
\* first section, then those of the second, and so on, each section's chunks
\* together and in their own order; and the sections are in the order of
\* their headings in the text.
C4_SectionOrder ==
    pc = "fallback" =>
        /\ Len(hierarchicalChunks) = ChunksBefore(Len(sections) + 1)
        /\ \A k \in 1..Len(sections) :
              LET own == ChunksOfSection(text, sections[k], k - 1, maxChunkSize)
              IN  \A j \in 1..Len(own) :
                      hierarchicalChunks[ChunksBefore(k) + j] = own[j]
        /\ IsSubsequence(TitlesOf(splitByHeadings(text)), HeadingTitles(text))
        /\ \A k \in 2..Len(sections) : sections[k].title # <<>>

\* two sections with different titles, one of them cut into several chunks
C4_Witness ==
    /\ pc = "fallback"
    /\ Len(sections) >= 2
    /\ sections[1].title # sections[2].title
    /\ Len(ChunksOfSection(text, sections[1], 0, maxChunkSize)) >= 2
    /\ Len(ChunksOfSection(text, sections[2], 1, maxChunkSize)) >= 1

\* C5: every chunk chunkText returns is at most maxChunkSize long.
C5_ChunksWithinMaxChunkSize ==
    pc = "done" =>
        \A i \in 1..Len(result.chunks) : Len(result.chunks[i]) <= maxChunkSize

\* C6: every chunk createFixedLengthChunks pushes is at most maxChunkSize
\* long.
C6_FixedChunksWithinMaxChunkSize ==
    \A i \in 1..Len(fixedChunks) : Len(fixedChunks[i]) <= maxChunkSize

\* C7: with 0 <= overlapSize < maxChunkSize the window start grows on every
\* pass of the loop of createFixedLengthChunks.
C7_StartGrows ==
    [][(pc = "fixed" /\ pc' = "fixed") => start' > start]_vars

\* C8: for an empty or whitespace-only text chunkText returns no chunk,
\* tagged content_aware_hierarchical, and has called neither the chunkers nor
\* the fallback test.
C8_BlankTextReturnsEmpty ==
    (pc = "done" /\ Trim(text) = <<>>) =>
        /\ result = [chunks |-> <<>>, method |-> "content_aware_hierarchical"]
        /\ calls = {}

\* a text of whitespace only has been answered
C8_Witness ==
    /\ pc = "done"
    /\ text # <<>>
    /\ Trim(text) = <<>>

\* C9: a text with a character other than whitespace and no heading line is
\* answered with method fixed_length, and each returned chunk is a trimmed
\* piece of the text itself.
C9_NoHeadingGivesFixedLength ==
    (pc = "done" /\ Trim(text) # <<>> /\ ~HasHeadingLine(text)) =>
        /\ result.method = "fixed_length"
        /\ \A i \in 1..Len(result.chunks) : IsTrimmedSubstring(result.chunks[i], text)

\* a heading-free text whose hierarchical chunks were discarded
C9_Witness ==
    /\ pc = "done"
    /\ Trim(text) # <<>>
    /\ ~HasHeadingLine(text)
    /\ hierarchicalChunks # <<>>
    /\ Len(result.chunks) >= 1

\* C10: for a text that is not blank the method tag tells what the chunks
\* are: fixed_length exactly when the fallback test holds of the hierarchical
\* chunks, and then the chunks are those of createFixedLengthChunks run on the
\* text as given; otherwise they are the hierarchical chunks unchanged.
C10_MethodMatchesChunks ==
    (pc = "done" /\ Trim(text) # <<>>) =>
        LET fallback == shouldUseFixedLengthFallback(text, hierarchicalChunks,
                                                     maxChunkSize)
        IN  /\ (result.method = "fixed_length") = fallback
            /\ result.method \in {"fixed_length", "content_aware_hierarchical"}
            /\ result.method = "fixed_length" =>
                  /\ ftext = text
                  /\ FixedLoopDone
                  /\ result.chunks = fixedChunks
                  /\ \A i \in 1..Len(result.chunks) :
                        IsTrimmedSubstring(result.chunks[i], text)
            /\ result.method = "content_aware_hierarchical" =>
                  /\ result.chunks = hierarchicalChunks
                  /\ "createFixedLengthChunks" \notin calls
                  /\ \A i \in 1..Len(result.chunks) :
                        StartsWith(result.chunks[i], TitleLabel)

\* hierarchical chunks were built and then replaced by fixed-length ones
C10_Witness ==
    /\ pc = "done"
    /\ result.method = "fixed_length"
    /\ hierarchicalChunks # <<>>
    /\ result.chunks # <<>>
    /\ cleanMarkdown(text) # text

\* the chunk's section label: the text of its first 'Section:' line
HasGenericLabel(chunk) ==
    LET lines == Split("line", chunk)
        at == {k \in 1..Len(lines) : StartsWith(lines[k], SectionLabel)}
    IN  /\ at # {}
        /\ SubSeq(lines[MinOf(at)], Len(SectionLabel) + 1, Len(lines[MinOf(at)]))
              \in {SectionWord \o <<"1">>, DocumentWord}

\* the seven criteria, of the arguments of the call
NoChunks == Len(argChunks) = 0

OneHugeChunk == Len(argChunks) = 1 /\ Len(argChunks[1]) > 3 * maxChunkSize

AllLabelsGeneric == \A i \in 1..Len(argChunks) : HasGenericLabel(argChunks[i])

MostlyBroken ==
    2 * Cardinality({i \in 1..Len(argChunks) : IsBrokenSentence(argChunks[i])})
        > Len(argChunks)

TooFewChunks == CharsPerChunk * Len(argChunks) < Len(text)

MostlyLarge ==
    100 * Cardinality({i \in 1..Len(argChunks) : Len(argChunks[i]) > 2 * maxChunkSize})
        > 60 * Len(argChunks)

MeanTooLarge == 10 * SumLen(argChunks) > 18 * maxChunkSize * Len(argChunks)

\* C11: shouldUseFixedLengthFallback returns true exactly when one of the
\* seven criteria holds: no chunk; one chunk longer than 3*maxChunkSize; every
\* chunk labelled 'Section 1' or 'Document'; more than half of the chunks with
\* content not ending a sentence; fewer chunks than one per 3000 characters;
\* more than 60% of the chunks longer than 2*maxChunkSize; mean length above
\* 1.8*maxChunkSize.
C11_FallbackIffSomeCriterion ==
    pc = "done" =>
        returned = (\/ NoChunks
                    \/ OneHugeChunk
                    \/ AllLabelsGeneric
                    \/ MostlyBroken
                    \/ TooFewChunks
                    \/ MostlyLarge
                    \/ MeanTooLarge)

\* C12: the generic-section criterion fires exactly when every chunk's
\* section label is 'Section 1' or 'Document': when none of the other six
\* criteria holds, the function returns true exactly in that case.
C12_GenericLabelCriterion ==
    (/\ pc = "done"
     /\ ~NoChunks
     /\ ~OneHugeChunk
     /\ ~MostlyBroken
     /\ ~TooFewChunks
     /\ ~MostlyLarge
     /\ ~MeanTooLarge) => (returned = AllLabelsGeneric)

\* a line that is a level-1 heading with a text: '#', whitespace, the text
IsTitleLine(line) ==
    /\ Len(line) >= 3
    /\ line[1] = "#"
    /\ IsSpace(line[2])
    /\ Trim(Tail(line)) # <<>>

\* the text of the first level-1 heading of t, or 'Document'
FirstLevelOneTitle(t) ==
    LET lines == Split("line", t)
        at == {k \in 1..Len(lines) : IsTitleLine(lines[k])}
    IN  IF at = {} THEN DocumentWord ELSE Trim(Tail(lines[MinOf(at)]))

\* the section labels a chunk of t may carry
SectionLabelsOf(t) ==
    IF splitByHeadings(t) = <<>>
    THEN {DocumentWord}
    ELSE Range(HeadingTitles(t)) \cup {SectionWord \o <<"1">>}

\* the chunk is the three labelled lines, with a content that is not empty
HasWireFormat(chunk, t) ==
    \E label \in SectionLabelsOf(t) :
        LET prefix == TitleLabel \o FirstLevelOneTitle(t) \o <<NL>>
                        \o SectionLabel \o label \o <<NL>> \o ContentLabel
        IN  /\ StartsWith(chunk, prefix)
            /\ Len(chunk) > Len(prefix)

\* C13: every chunk createHierarchicalChunks returns reads 'Title: T', new
\* line, 'Section: S', new line, 'Content: C', where T is the text of the
\* first level-1 heading of the text or 'Document', S is a heading text of
\* the text, 'Section 1' or 'Document', and C is not empty.
C13_WireFormat ==
    pc = "fallback" =>
        \A i \in 1..Len(hierarchicalChunks) : HasWireFormat(hierarchicalChunks[i], text)

\* the lines a..b of a text, joined again
SegmentText(lines, a, b) ==
    IF a > b THEN <<>> ELSE JoinLines(SubSeq(lines, a, b))

\* the sections the heading lines of t delimit: the lines before the first
\* heading, untitled, then for each heading the lines up to the next one;
\* only those with a character other than whitespace
ExpectedSections(t) ==
    LET lines == Split("line", t)
        heads == {k \in 1..Len(lines) : IsHeading(Trim(lines[k]))}
        Last(k) == MinOf({j \in heads : j > k} \cup {Len(lines) + 1}) - 1
        Body(k) == SegmentText(lines, k + 1, Last(k))
        kept == {k \in heads : Trim(Body(k)) # <<>>}
        Nth[n \in 0..Cardinality(kept)] ==
            IF n = 0 THEN 0 ELSE MinOf({k \in kept : k > Nth[n - 1]})
        lead == Body(0)
    IN  IF heads = {} THEN <<>>
        ELSE (IF Trim(lead) # <<>>
              THEN <<[title |-> <<>>, content |-> lead]>> ELSE <<>>)
             \o [n \in 1..Cardinality(kept) |->
                    [title |-> HeadingText(Trim(lines[Nth[n]])),
                     content |-> Body(Nth[n])]]

C15_EmptyListStats ==
    (pc = "done" /\ argChunks = <<>>) =>
        /\ returned.totalChunks = 0
        /\ returned.averageChunkSize = 0
        /\ returned.minChunkSize = 0
        /\ returned.maxChunkSize = 0
        /\ returned.sentenceBoundaryPreservation = 0
        /\ returned.fallbackReasons = <<>>
        /\ returned.method = method
        /\ returned.fallbackTriggered = (method = FixedLength)

\* the statistics of an empty fixed-length result
C15_Witness ==
    /\ pc = "done"
    /\ argChunks = <<>>
    /\ method = FixedLength
    /\ returned.fallbackTriggered

\* C16: for a chunk list that is not empty the call leaves the list as it
\* was and returns its length as totalChunks, the least and greatest chunk
\* length with the rounded mean between them, a sentenceBoundaryPreservation
\* between 0 and 100 (here 0 to 10000 hundredths), and fallbackTriggered true
\* exactly for fixed_length.
C16_StatsOfChunks ==
    [][(pc = "analyzeChunkingQuality" /\ argChunks # <<>>) =>
          /\ argChunks' = argChunks
          /\ returned'.totalChunks = Len(argChunks)
          /\ \E i \in 1..Len(argChunks) : returned'.minChunkSize = Len(argChunks[i])
          /\ \E i \in 1..Len(argChunks) : returned'.maxChunkSize = Len(argChunks[i])
          /\ \A i \in 1..Len(argChunks) :
                /\ returned'.minChunkSize <= Len(argChunks[i])
                /\ Len(argChunks[i]) <= returned'.maxChunkSize
          /\ returned'.minChunkSize <= returned'.averageChunkSize
          /\ returned'.averageChunkSize <= returned'.maxChunkSize
          /\ returned'.sentenceBoundaryPreservation \in 0..10000
          /\ returned'.method = method
          /\ returned'.fallbackTriggered = (method = FixedLength)]_vars

\* labelled chunks of different lengths, some ending a sentence
C16_Witness ==
    /\ pc = "done"
    /\ Len(argChunks) >= 2
    /\ method = Hierarchical
    /\ returned.minChunkSize < returned.averageChunkSize
    /\ returned.averageChunkSize < returned.maxChunkSize
    /\ returned.minChunkSize > Len(ContentLabel)
    /\ returned.sentenceBoundaryPreservation \in 1..9999

\* C17: every result of chunkText that holds a chunk has all its chunks end
\* a sentence: analyzeChunkingQuality reports sentenceBoundaryPreservation
\* 100 (10000 hundredths) for it.
C17_AllChunksEndSentences ==
    (pc = "done" /\ result.chunks # <<>>) =>
        analyzeChunkingQuality(result.chunks, result.method)
            .sentenceBoundaryPreservation = 10000

\* the content is text and whitespace only
IsPlain(s) == \A i \in 1..Len(s) : s[i] \in WhitespaceAlphabet

\* whitespace runs that are three or more newlines and nothing else stand
\* apart from the others: no run holds three newlines in a row next to other
\* whitespace
RunsStandApart(s) ==
    \A i \in 1..Len(s) :
        (IsSpace(s[i]) /\ (i = 1 \/ ~IsSpace(s[i - 1]))) =>
            LET run == SubSeq(s, i, RunEnd("space", s, i) - 1)
            IN  \/ \A j \in 1..Len(run) : run[j] = NL
                \/ ~Includes(run, <<NL, NL, NL>>)

\* each run of three or more newlines as two newlines, each other whitespace
\* run as one space
RECURSIVE Normalised(_, _)
Normalised(s, i) ==
    IF i > Len(s) THEN <<>>
    ELSE IF ~IsSpace(s[i]) THEN <<s[i]>> \o Normalised(s, i + 1)
    ELSE LET e == RunEnd("space", s, i)
             run == SubSeq(s, i, e - 1)
         IN  (IF Len(run) >= 3 /\ \A j \in 1..Len(run) : run[j] = NL
              THEN <<NL, NL>> ELSE <<" ">>) \o Normalised(s, e)

\* C18: what cleanMarkdown returns has no whitespace at either end, is empty
\* for an empty content, and for a content of text and whitespace shows each
\* run of three or more newlines as two newlines and each other whitespace
\* run as one space.
C18_WhitespaceNormalised ==
    pc = "done" =>
        /\ returned = Trim(returned)
        /\ content = <<>> => returned = <<>>
        /\ (IsPlain(content) /\ RunsStandApart(content)) =>
              returned = Trim(Normalised(content, 1))

\* how often the character c occurs in s
Occurrences(s, c) == Cardinality({i \in 1..Len(s) : s[i] = c})

\* C19: cleanMarkdown takes the markers away and keeps the marked text: the
\* result holds no '##', no '*', no '[' and no '](' , every letter of the
\* heading texts, the bold and italic spans, the link texts and the words
\* as often as the content does, and nothing of the link targets.
C19_MarkersRemovedTextKept ==
    pc = "done" =>
        /\ ~Includes(returned, <<"#", "#">>)
        /\ ~Includes(returned, <<"*">>)
        /\ ~Includes(returned, <<"[">>)
        /\ ~Includes(returned, <<"]", "(">>)
        /\ \A c \in {"a", "b", "i", "t", "w", "h"} :
              Occurrences(returned, c) = Occurrences(content, c)
        /\ Occurrences(returned, "u") = 0

\* a heading line with a bold span, an italic span and a link
C19_Witness ==
    /\ pc = "done"
    /\ StartsWith(content, <<"#", " ">>)
    /\ Occurrences(content, "b") = 1
    /\ Occurrences(content, "i") = 1
    /\ Occurrences(content, "u") = 1
    /\ Occurrences(returned, "t") = 1

\* the part of the window [s, end) of t that trimming keeps, as 0-based
\* offsets [from, to), or an empty sequence when nothing is kept
KeptOfWindow(t, s, end) ==
    LET keep == {i \in Clamp(s, Len(t))..(Clamp(end, Len(t)) - 1) : ~IsSpace(t[i + 1])}
    IN  IF keep = {} THEN <<>>
        ELSE <<[from |-> MinOf(keep), to |-> MaxOf(keep) + 1, window |-> s]>>

\* where the chunks of a finished run lie in the text, in order; each window
\* after the first starts overlapSize before the end of the one before it
RECURSIVE ChunkExtents(_, _, _, _)
ChunkExtents(t, s, m, o) ==
    IF s >= Len(t) THEN <<>>
    ELSE LET end == WindowEnd(t, s, m)
         IN  KeptOfWindow(t, s, end) \o ChunkExtents(t, end - o, m, o)

\* C20: when createFixedLengthChunks returns more than one chunk, with
\* 0 < overlapSize < maxChunkSize, consecutive chunks overlap in the text:
\* each chunk starts before the chunk ahead of it ends, and the lengths of
\* the two together exceed the distance between the starts of their windows.
C20_ConsecutiveChunksOverlap ==
    (pc = "done" /\ overlapSize > 0 /\ Len(result.chunks) > 1) =>
        LET at == ChunkExtents(ftext, 0, maxChunkSize, overlapSize)
        IN  /\ Len(at) = Len(result.chunks)
            /\ \A i \in 1..(Len(at) - 1) :
                  /\ at[i + 1].from < at[i].to
                  /\ (at[i].to - at[i].from) + (at[i + 1].to - at[i + 1].from)
                        > at[i + 1].window - at[i].window

\* the running chunk and the chunks pushed when the loop over the
\* paragraphs is left (line 275)
AfterParagraphs(c, tMin, tMax) ==
    ParagraphLoop(ParagraphsOf(c), 1, <<>>, <<>>, tMin, tMax)

\* C23: after the paragraphs, splitSectionIntoChunks pushes the final
\* running chunk as a chunk of its own exactly when its length is at least
\* targetMin / 2 (the exact half, for odd targetMin too); a shorter final
\* chunk that is not empty is added, after a blank line, to the last chunk
\* pushed, or pushed alone when none was; an empty final chunk adds nothing.
C23_FinalChunkFlush ==
    pc = "done" =>
        LET r == AfterParagraphs(content, targetMin, targetMax)
            last == r.currentChunk
        IN  sectionChunks =
               IF last = <<>> THEN r.chunks
               ELSE IF 2 * Len(last) >= targetMin THEN Append(r.chunks, last)
               ELSE IF r.chunks # <<>>
               THEN [r.chunks EXCEPT ![Len(r.chunks)] = @ \o <<NL, NL>> \o last]
               ELSE <<last>>

\* the last sentence or paragraph boundary at or before the 0-based offset
\* pos of t: the largest offset that holds a '.' or the first of two
\* newlines in a row, or -1
LastBoundary(t, pos) ==
    LET at == {i \in 0..(Len(t) - 1) :
                  /\ i <= pos
                  /\ \/ t[i + 1] = "."
                     \/ t[i + 1] = NL /\ i + 2 <= Len(t) /\ t[i + 2] = NL}
    IN  IF at = {} THEN -1 ELSE MaxOf(at)

\* the loop of createFixedLengthChunks is about to take a window whose
\* proposed end lies before the end of the text
WindowBeforeTextEnd ==
    pc = "fixed" /\ start < Len(ftext) /\ start + maxChunkSize < Len(ftext)

\* C24: a window of createFixedLengthChunks whose proposed end
\* start + maxChunkSize lies before the end of the text ends just after the
\* last '.' or blank-line break found backward from the proposed end when
\* that boundary is past start + maxChunkSize / 2, and at the proposed end
\* otherwise; so the window is longer than half of maxChunkSize.
C24_WindowEndsAtBoundary ==
    WindowBeforeTextEnd =>
        LET end == WindowEnd(ftext, start, maxChunkSize)
            b == LastBoundary(ftext, start + maxChunkSize)
        IN  /\ end = IF 2 * b > 2 * start + maxChunkSize
                     THEN b + 1 ELSE start + maxChunkSize
            /\ 2 * (end - start) > maxChunkSize

\* the first window was proposed to end before the end of the text and
\* has been cut short, just after a boundary past its half
C24_Witness ==
    /\ pc = "fixed"
    /\ Len(fixedChunks) = 1
    /\ maxChunkSize < Len(ftext)
    /\ LET b == LastBoundary(ftext, maxChunkSize)
       IN  /\ 2 * b > maxChunkSize
           /\ b + 1 < maxChunkSize
           /\ start + overlapSize = b + 1

\* C29: when createFixedLengthChunks returns (0 <= overlapSize), its windows
\* leave no gap: every character of the text that is not whitespace lies in
\* a returned chunk, every returned chunk is a stretch of the text that is
\* not empty and neither starts nor ends with whitespace, and the chunks
\* come in the order of their start offsets: no chunk starts before the one
\* ahead of it (two chunks whose windows begin in the same whitespace start
\* at the same character).
C29_ChunksCoverText ==
    pc = "done" =>
        LET at == ChunkExtents(ftext, 0, maxChunkSize, overlapSize)
            chunks == result.chunks
        IN  /\ Len(at) = Len(chunks)
            /\ \A i \in 1..Len(chunks) :
                  /\ chunks[i] = SubSeq(ftext, at[i].from + 1, at[i].to)
                  /\ chunks[i] # <<>>
                  /\ ~IsSpace(chunks[i][1])
                  /\ ~IsSpace(chunks[i][Len(chunks[i])])
            /\ \A k \in 1..Len(ftext) :
                  ~IsSpace(ftext[k]) =>
                      \E i \in 1..Len(at) : at[i].from < k /\ k <= at[i].to
            /\ \A i \in 1..(Len(at) - 1) : at[i].from <= at[i + 1].from

\* a run over a text with whitespace in it has returned several chunks
C29_Witness ==
    /\ pc = "done"
    /\ Len(result.chunks) >= 3
    /\ overlapSize > 0
    /\ \E k \in 1..Len(ftext) : IsSpace(ftext[k])
    /\ \E k \in 1..Len(ftext) : ~IsSpace(ftext[k])
    /\ \E i \in 1..Len(result.chunks) : Len(result.chunks[i]) < maxChunkSize

\* the content of a chunk of createHierarchicalChunks: what follows the
\* label of its third line
ContentPart(chunk) ==
    LET mark == <<NL>> \o ContentLabel
        at == {i \in 1..Len(chunk) : OccursAt(chunk, mark, i)}
    IN  IF at = {} THEN <<>>
        ELSE SubSeq(chunk, MinOf(at) + Len(mark), Len(chunk))

\* the sections createHierarchicalChunks has split the text into
SectionsSeen == IF pc \in {"sections", "done"} THEN sections ELSE <<>>

NoTerminatorAtEnd(s) == s = <<>> \/ ~IsTerminator(s[Len(s)])

\* C27: a chunk from the sentence branch of splitSectionIntoChunks never
\* ends in '.', '!' or '?', the terminators being removed and the sentences
\* joined again with '. '; hence in createHierarchicalChunks, where
\* targetMin >= 1, every chunk of a section whose cleaned content is longer
\* than the adjusted target maximum counts as a broken sentence for the
\* fourth fallback criterion.
C27_SentenceChunksAreBroken ==
    (pc = "done" /\ TargetMinOf(AdjustedTargetMax(maxChunkSize)) >= 1) =>
        \A k \in 1..Len(sections) :
            LET adjusted == AdjustedTargetMax(maxChunkSize)
                cleaned == cleanMarkdown(sections[k].content)
                r == SplitLongParagraph(cleaned, <<>>, TargetMinOf(adjusted), adjusted)
                chunks == ChunksOfSection(text, sections[k], k - 1, maxChunkSize)
            IN  Len(cleaned) > adjusted =>
                    /\ \A i \in 1..Len(r.chunks) : NoTerminatorAtEnd(r.chunks[i])
                    /\ NoTerminatorAtEnd(r.currentChunk)
                    /\ \A i \in 1..Len(chunks) : IsBrokenSentence(chunks[i])

\* s holds none of the characters that end a sentence
IsOneSentence(s) == \A i \in 1..Len(s) : ~IsTerminator(s[i])

\* C28: in createHierarchicalChunks with targetMax >= 2 the content of every
\* chunk is at most min(targetMax, 1800) long, unless it is one sentence,
\* not joined to another with '. ', that is longer than that by itself.
C28_ContentWithinTarget ==
    (pc = "done" /\ maxChunkSize >= 2) =>
        \A i \in 1..Len(returned) :
            LET c == ContentPart(returned[i])
                bound == IF maxChunkSize < 1800 THEN maxChunkSize ELSE 1800
            IN  \/ Len(c) <= bound
                \/ IsOneSentence(c) /\ ~Includes(c, <<".", " ">>)

\* the sentences of a section longer than the bound have been joined into a
\* chunk as long as the bound, and another chunk is a sentence longer than it
C28_Witness ==
    /\ pc = "done"
    /\ maxChunkSize >= 2
    /\ \E i \in 1..Len(returned) :
          /\ Includes(ContentPart(returned[i]), <<".", " ">>)
          /\ Len(ContentPart(returned[i])) = maxChunkSize
    /\ \E i \in 1..Len(returned) : Len(ContentPart(returned[i])) > maxChunkSize
    /\ \E k \in 1..Len(sections) :
          Len(cleanMarkdown(sections[k].content)) > maxChunkSize

\* a line that, trimmed, starts with one '#' and whitespace after it
IsLevelOneHeading(line) ==
    LET trimmedLine == Trim(line)
    IN  RunLen("hash", trimmedLine, 1) = 1 /\ RunLen("space", trimmedLine, 2) >= 1

HasLevelOneHeading(t) ==
    LET lines == Split("line", t)
    IN  \E k \in 1..Len(lines) : IsLevelOneHeading(lines[k])

BothCalled == returned.library # NotCalled /\ returned.edge # NotCalled

\* C30: for a text without a level-1 heading line the library's chunkText
\* and the copy in the edge function return the same method and the same
\* chunks, whatever maxChunkSize and overlapSize, although for a text
\* without headings one labels the one section 'Document' and the other
\* 'Section 1'.
C30_CopiesAgree ==
    (BothCalled /\ ~HasLevelOneHeading(text)) => returned.library = returned.edge

\* a text without headings, whose one section the copies label differently,
\* has been chunked by both
C30_Witness ==
    /\ BothCalled
    /\ ~HasLevelOneHeading(text)
    /\ splitByHeadings(text) = <<>>
    /\ EdgeSplitByHeadings(text) # <<>>
    /\ createHierarchicalChunks(text, maxChunkSize)
          # EdgeCreateHierarchicalChunks(text, maxChunkSize)
    /\ returned.library.method = FixedLength
    /\ Len(returned.library.chunks) >= 2

(***************************************************************************)
(* C22.  getOrCreateDocument under races: whatever the interleaving of the *)
(* invocations and whatever errors the database gives, the table holds at  *)
(* most one document for each (type, source_id), and every invocation that *)
(* returns a document returns the one for its key; the others have failed  *)
(* with an error.                                                          *)
(***************************************************************************)
C22_OneDocumentForEachKey ==
    /\ \A k \in DocKeys : Cardinality(RowsOf(documents, k)) <= 1
    /\ \A c \in DOMAIN callers :
          /\ callers[c].pc = "returned" =>
                callers[c].returned \in
                    {d.id : d \in RowsOf(documents, callers[c].key)}
          /\ callers[c].pc = "failed" => callers[c].returned = NoDocument

\* two invocations for one key both found no row, both upserted, both returned
C22_Witness ==
    /\ DOMAIN callers = 1..MaxCallers
    /\ \A c \in DOMAIN callers :
          /\ callers[c].key = callers[1].key
          /\ callers[c].pc = "returned"
          /\ callers[c].existingDocument = NoDocument
          /\ ~callers[c].findError

(***************************************************************************)
(* C21.  Resuming: while a document of more than 20 chunks is processed by *)
(* an invocation with metadata.resume_processing set and no insert or      *)
(* queue error has happened, no step removes a stored chunk row, no step   *)
(* stores a chunk_order that is already stored, and the run is planned to  *)
(* start at the first chunk_order not yet stored.                          *)
(***************************************************************************)
StoredOrders ==
    {r.chunk_order : r \in {x \in documentChunks : x.document_id = locals.document}}

FirstNotStored ==
    CHOOSE k \in 0..Cardinality(StoredOrders) :
        /\ k \notin StoredOrders
        /\ \A j \in 0..(k - 1) : j \in StoredOrders

C21_ResumeKeepsStoredChunks ==
    [][ (/\ request.resume_processing
         /\ Len(result.chunks) > MaxChunksPerRun
         /\ dbErrors' = 0)
        => /\ documentChunks \subseteq documentChunks'
           /\ \A r \in documentChunks' \ documentChunks :
                 r.chunk_order \notin StoredOrders
           /\ pc = "plan" => locals'.startFromChunk = FirstNotStored ]_vars

(***************************************************************************)
(* C25.  When an invocation has answered, its final status is decided by   *)
(* the counts of the run: 'failed' (HTTP 500, success false) exactly when  *)
(* a chunk was attempted and none succeeded; 'indexed' exactly when every  *)
(* attempted chunk succeeded and no chunk lies beyond the run's end index; *)
(* 'partial' otherwise.  can_resume holds exactly when chunks remain, or   *)
(* the status is 'partial' with a failure; and the successful and failed   *)
(* counts add up to the chunks attempted.                                  *)
(***************************************************************************)
Answered == pc = "receive" /\ runs > 0

ChunksRemain == locals.endChunk < Len(result.chunks)

C25_StatusFollowsCounts ==
    Answered =>
        LET attempted == ToProcess(locals)
            successful == returned.chunks_successful_this_run
            failed == returned.chunks_failed_this_run
        IN  /\ returned.chunks_processed_this_run = attempted
            /\ successful + failed = attempted
            /\ returned.status \in {"failed", "indexed", "partial"}
            /\ returned.status = "failed" <=> (attempted > 0 /\ successful = 0)
            /\ returned.status = "indexed" <=>
                  (successful = attempted /\ ~ChunksRemain)
            /\ returned.http = (IF returned.status = "failed" THEN 500 ELSE 200)
            /\ returned.success <=> returned.status # "failed"
            /\ returned.can_resume <=>
                  (ChunksRemain \/ (returned.status = "partial" /\ failed > 0))

\* a run that attempted every chunk of a document and lost one of them
C25_Witness ==
    /\ Answered
    /\ ~ChunksRemain
    /\ returned.chunks_processed_this_run = MaxChunksPerRun
    /\ returned.chunks_failed_this_run = 1
    /\ returned.status = "partial"
    /\ returned.can_resume

====
